---- MODULE Spec2Model ----
(***************************************************************************)
(* Daily-journal backend: the Entry and User models (mongoose schemas and  *)
(* hooks), the /api/entries routes (create, get, update, favorite toggle,  *)
(* delete, list, search, calendar, summary, export), the dashboard of      *)
(* /api/users, and the list query Entry.getEntriesWithFilters.             *)
(*                                                                         *)
(* A request is run by a worker of Procs; every await of a store call is   *)
(* a step boundary, so two requests interleave exactly where the event     *)
(* loop can switch between them.                                           *)
(***************************************************************************)
EXTENDS Integers, Sequences, FiniteSets, TLC

\* ------------------------------------------------------------------ bounds
MaxEntries == 2                \* entries ever created in one behaviour
MaxWordCount == 2              \* the wordCount a caller supplies in a body

Users == {"u1", "u2"}
Procs == {1, 2}                \* request workers: requests in flight at once
Dates == {1, 2}                \* timestamps (ticks), ordered as integers

\* optional values: <<>> is undefined / null, <<v>> is the value v
None == <<>>
Some(v) == <<v>>

\* ------------------------------------------------------------- enumerations
Moods == {"happy", "sad", "excited", "calm", "anxious", "grateful", "angry", "neutral"}
Categories == {"Personal", "Work", "Health", "Relationships", "Goals", "Travel", "Learning", "Reflection"}

WordsPerMinute == 200

\* --------------------------------------------------------- word counting
Whitespace == {" ", "\n"}

RECURSIVE TrimStart(_)
TrimStart(s) ==
  IF s = <<>> THEN s
  ELSE IF Head(s) \in Whitespace THEN TrimStart(Tail(s)) ELSE s

RECURSIVE TrimEnd(_)
TrimEnd(s) ==
  IF s = <<>> THEN s
  ELSE IF s[Len(s)] \in Whitespace THEN TrimEnd(SubSeq(s, 1, Len(s) - 1)) ELSE s

\* String.prototype.trim
Trim(s) == TrimEnd(TrimStart(s))

\* String.prototype.split(/\s+/): the pieces between maximal whitespace runs
\* (a leading or trailing run leaves an empty piece; "" splits to [""])
RECURSIVE SplitFrom(_, _, _, _)
SplitFrom(s, cur, acc, inRun) ==
  IF s = <<>> THEN Append(acc, cur)
  ELSE IF Head(s) \in Whitespace
       THEN IF inRun THEN SplitFrom(Tail(s), cur, acc, TRUE)
            ELSE SplitFrom(Tail(s), <<>>, Append(acc, cur), TRUE)
       ELSE SplitFrom(Tail(s), Append(cur, Head(s)), acc, FALSE)

SplitWhitespace(s) == SplitFrom(s, <<>>, <<>>, FALSE)

\* content.trim().split(/\s+/).filter((word) => word.length > 0).length
CountWords(content) ==
  Len(SelectSeq(SplitWhitespace(Trim(content)), LAMBDA word : Len(word) > 0))

\* Math.ceil(a / b) for a >= 0, b > 0
Ceil(a, b) == (a + b - 1) \div b

\* Math.ceil(this.wordCount / 200)
ReadingTime(wordCount) == Ceil(wordCount, WordsPerMinute)

\* entrySchema.pre("save"): the derived fields of a document about to be saved
PreSave(doc) ==
  IF doc.content # <<>>
  THEN [doc EXCEPT !.wordCount = CountWords(doc.content),
                   !.readingTime = ReadingTime(CountWords(doc.content))]
  ELSE [doc EXCEPT !.wordCount = 0, !.readingTime = 0]

\* ------------------------------------------------------------------ state
VARIABLES
  entries,   \* the entries collection, in insertion order
  stats,     \* stats[u]: the stats sub-document of user u
  procs,     \* procs[p]: the request worker p runs and where it stands
  nextId,    \* the next fresh entry _id
  resp,      \* the response sent by the last step (NoResp when it sent none)
  users      \* the users collection, in insertion order

vars == <<entries, stats, procs, nextId, resp, users>>

EntryIds == 1..MaxEntries

ZeroStats == [totalEntries |-> 0, totalWords |-> 0, lastEntryDate |-> None]

\* pc: where the request stands ("idle": no request); user: req.userId;
\* target: the userId of the document whose hook runs; doc, loaded, found: what
\* findOne, User.findById and Entry.find returned to the request; req: the
\* request's parameters; acc: the results of the read queries run so far.
\* solo: no other request has been in flight since this one started.
IdleProc ==
  [pc |-> "idle", op |-> "none", user |-> "none", target |-> "none", doc |-> None,
   loaded |-> None, found |-> <<>>, solo |-> TRUE, req |-> None, acc |-> None]

\* res.status(status).json(...) of request op of user u about entry id:
\* owner is the owner of the entry returned or changed, recompute what became of the
\* stats recomputation, solo whether the request ran with no other in flight
NoResp ==
  [op |-> "none", user |-> "none", id |-> 0, status |-> 0, owner |-> None,
   recompute |-> "none", solo |-> TRUE, req |-> None, body |-> None]

\* a user document: _id, email (stored in lower case) and isActive (default true)
Account(id, email) == [id |-> id, email |-> email, isActive |-> TRUE]

\* the accounts of the two users, registered before the first request
Registered == <<Account("u1", <<"a">>), Account("u2", <<"b">>)>>

Init ==
  /\ users = Registered
  /\ entries = <<>>
  /\ stats = [u \in Users |-> ZeroStats]
  /\ procs = [p \in Procs |-> IdleProc]
  /\ nextId = 1
  /\ resp = NoResp

\* ---------------------------------------------------------------- queries
\* a variant of OwnedBy: no filter on the owner
OwnedByAnyone(e, u) == TRUE

\* the filter { userId: u } on one document
OwnedBy(e, u) == e.userId = u

\* Entry.find({ userId: u }): the user's entries in insertion order
EntriesOf(u) == SelectSeq(entries, LAMBDA e : OwnedBy(e, u))

\* positions of the documents matching { _id: i }
ById(i) == {k \in 1..Len(entries) : entries[k].id = i}

\* a variant of Matching: the filter { _id: i } without the userId
MatchingAnyUser(i, u) == ById(i)

\* positions of the documents matching { _id: i, userId: u }
Matching(i, u) == {k \in 1..Len(entries) : entries[k].id = i /\ OwnedBy(entries[k], u)}

RemoveAt(s, k) == SubSeq(s, 1, k - 1) \o SubSeq(s, k + 1, Len(s))

RECURSIVE SumWordCount(_)
\* entries.reduce((total, entry) => total + entry.wordCount, 0)
SumWordCount(s) == IF s = <<>> THEN 0 ELSE Head(s).wordCount + SumWordCount(Tail(s))

\* ------------------------------------------------------------ request plumbing
Idle(p) == procs[p].pc = "idle"

\* no other request is in flight
Alone(p) == \A q \in Procs \ {p} : procs[q].pc = "idle"

\* a request of p starts: every request in flight is overlapped
Overlapped(p) ==
  [q \in Procs |-> IF q # p /\ procs[q].pc # "idle"
                   THEN [procs[q] EXCEPT !.solo = FALSE] ELSE procs[q]]

\* p starts a request and goes on to its next store call as r
Started(p, r) == [Overlapped(p) EXCEPT ![p] = [r EXCEPT !.solo = Alone(p)]]

Request(pc, op, u) == [IdleProc EXCEPT !.pc = pc, !.op = op, !.user = u]

Reply(op, u, i, status) ==
  [NoResp EXCEPT !.op = op, !.user = u, !.id = i, !.status = status]

\* an error response: { error: "..." } tells neither the user nor the entry
Error(op, status) == [NoResp EXCEPT !.op = op, !.status = status]

\* a request of p answered in the step that started it
Answer(p, r) ==
  /\ procs' = Overlapped(p)
  /\ resp' = [r EXCEPT !.solo = Alone(p)]

\* a request in flight answers
Finish(p, r) ==
  /\ procs' = [procs EXCEPT ![p] = IdleProc]
  /\ resp' = [r EXCEPT !.solo = procs[p].solo]

\* ------------------------------------------------------------ request bodies
Body(content, wordCount, date, mood, category) ==
  [content |-> content, wordCount |-> wordCount, date |-> date, mood |-> mood,
   category |-> category]

\* the keys of the entry schemas: Joi.object refuses a body with any other key
SchemaKeys == {"content", "wordCount", "date", "mood", "category"}
KnownKeys(b) == DOMAIN b \subseteq SchemaKeys

\* a body that carries the key userId besides the keys of b
WithUserId(b, u) ==
  [f \in DOMAIN b \cup {"userId"} |-> IF f = "userId" THEN u ELSE b[f]]

\* variant of createEntrySchema: content without min(1) and without the empty-string rule
ValidCreateAnyLength(b) ==
  /\ KnownKeys(b)
  /\ b.content # None
  /\ b.mood # None /\ b.mood[1] \in Moods
  /\ b.category # None /\ b.category[1] \in Categories
  /\ b.wordCount # None => b.wordCount[1] >= 0

\* createEntrySchema
ValidCreate(b) ==
  /\ KnownKeys(b)
  /\ b.content # None /\ Len(b.content[1]) >= 1
  /\ b.mood # None /\ b.mood[1] \in Moods
  /\ b.category # None /\ b.category[1] \in Categories
  /\ b.wordCount # None => b.wordCount[1] >= 0

\* variant of updateEntrySchema: unknown keys are let through
ValidUpdateAllowingUnknown(b) ==
  /\ b.content # None => Len(b.content[1]) >= 1
  /\ b.mood # None => b.mood[1] \in Moods
  /\ b.category # None => b.category[1] \in Categories
  /\ b.wordCount # None => b.wordCount[1] >= 0

\* updateEntrySchema
ValidUpdate(b) ==
  /\ KnownKeys(b)
  /\ b.content # None => Len(b.content[1]) >= 1
  /\ b.mood # None => b.mood[1] \in Moods
  /\ b.category # None => b.category[1] \in Categories
  /\ b.wordCount # None => b.wordCount[1] >= 0

OrElse(opt, default) == IF opt = None THEN default ELSE opt[1]

\* new Entry({ ...req.body, userId: req.userId }) with the schema defaults
NewEntry(i, u, b, now) ==
  [id |-> i, userId |-> u, content |-> b.content[1],
   wordCount |-> OrElse(b.wordCount, 0), readingTime |-> 0,
   date |-> OrElse(b.date, now), isFavorite |-> FALSE,
   mood |-> b.mood[1], category |-> b.category[1]]

\* the update document { ...req.body, updatedAt } applied with $set
ApplyUpdate(e, b) ==
  [e EXCEPT !.content = OrElse(b.content, @),
            !.wordCount = OrElse(b.wordCount, @),
            !.date = OrElse(b.date, @),
            !.mood = OrElse(b.mood, @),
            !.category = OrElse(b.category, @),
            !.userId = IF "userId" \in DOMAIN b THEN b.userId ELSE @]

\* --------------------------------------------------------- stats recomputation
\* a variant of StatsOf: lastEntryDate is not reset to null
StatsOfKeepingDate(found) ==
  [totalEntries |-> Len(found),
   totalWords |-> SumWordCount(found),
   lastEntryDate |-> IF Len(found) > 0 THEN Some(found[1].date) ELSE Some(1)]

\* userSchema.methods.updateStats: the stats assigned from the entries found
StatsOf(found) ==
  [totalEntries |-> Len(found),
   totalWords |-> SumWordCount(found),
   lastEntryDate |-> IF Len(found) > 0 THEN Some(found[1].date) ELSE None]

\* Document.prototype.save on a loaded document writes the modified paths only:
\* a path assigned the value it was loaded with is not written
SaveModified(stored, loaded, assigned) ==
  [f \in DOMAIN stored |-> IF assigned[f] # loaded[f] THEN assigned[f] ELSE stored[f]]

\* the orders in which a find without sort may return the documents s: the store
\* promises none, and only which document comes first is ever used
FindOrders(s) ==
  IF s = <<>> THEN {<<>>} ELSE {<<s[k]>> \o RemoveAt(s, k) : k \in 1..Len(s)}

\* the status of the success response of a mutation
SuccessStatus(op) == IF op = "create" THEN 201 ELSE 200

\* post("save") / post("findOneAndDelete"): User.findById(this.userId)
HookLoad(p) ==
  /\ procs[p].pc = "hook_load"
  /\ procs' = [procs EXCEPT ![p].pc = "hook_find",
                            ![p].loaded = Some(stats[procs[p].target])]
  /\ resp' = NoResp
  /\ UNCHANGED <<entries, stats, nextId, users>>

\* updateStats: Entry.find({ userId: this._id })
HookFind(p) ==
  /\ procs[p].pc = "hook_find"
  /\ \E found \in FindOrders(EntriesOf(procs[p].target)) :
       procs' = [procs EXCEPT ![p].pc = "hook_save", ![p].found = found]
  /\ resp' = NoResp
  /\ UNCHANGED <<entries, stats, nextId, users>>

\* the success response of the mutation p runs, once its hook has returned
Success(p, recompute) ==
  [Reply(procs[p].op, procs[p].user, 0, SuccessStatus(procs[p].op))
     EXCEPT !.owner = Some(procs[p].target), !.recompute = recompute,
            !.req = procs[p].req]

\* updateStats: the three assignments and this.save(); then the route answers
HookSave(p) ==
  /\ procs[p].pc = "hook_save"
  /\ stats' = [stats EXCEPT ![procs[p].target] =
                 SaveModified(@, procs[p].loaded[1], StatsOf(procs[p].found))]
  /\ Finish(p, Success(p, "saved"))
  /\ UNCHANGED <<entries, nextId, users>>

\* a variant of HookFail: the failure of the recomputation reaches the caller
HookFailSurfaced(p) ==
  /\ procs[p].pc \in {"hook_load", "hook_find", "hook_save"}
  /\ Finish(p, [Success(p, "failed") EXCEPT !.status = 500])
  /\ UNCHANGED <<entries, stats, nextId, users>>

\* a store call of the hook rejects: the catch block logs and the route answers
HookFail(p) ==
  /\ procs[p].pc \in {"hook_load", "hook_find", "hook_save"}
  /\ Finish(p, Success(p, "failed"))
  /\ UNCHANGED <<entries, stats, nextId, users>>

\* a variant of GetEntry: findById, then 403 when the entry is another user's
GetEntryForbidden(p, u, i) ==
  /\ Idle(p)
  /\ IF ById(i) = {}
     THEN Answer(p, Error("get", 404))
     ELSE \E k \in ById(i) :
            IF entries[k].userId # u
            THEN Answer(p, Error("get", 403))
            ELSE Answer(p, [Reply("get", u, i, 200) EXCEPT !.owner = Some(entries[k].userId)])
  /\ UNCHANGED <<entries, stats, nextId, users>>

\* ------------------------------------------------------------ entry routes
\* GET /api/entries/:id
GetEntry(p, u, i) ==
  /\ Idle(p)
  /\ IF Matching(i, u) = {}
     THEN Answer(p, Error("get", 404))
     ELSE \E k \in Matching(i, u) :
            Answer(p, [Reply("get", u, i, 200) EXCEPT !.owner = Some(entries[k].userId)])
  /\ UNCHANGED <<entries, stats, nextId, users>>

\* POST /api/entries: validate(createEntrySchema), new Entry, entry.save()
Create(p, u, b, now) ==
  /\ Idle(p)
  /\ IF ~ValidCreate(b)
     THEN /\ Answer(p, [Error("create", 400) EXCEPT !.req = Some(b)])
          /\ UNCHANGED <<entries, nextId, users>>
     ELSE /\ entries' = Append(entries, PreSave(NewEntry(nextId, u, b, now)))
          /\ nextId' = nextId + 1
          /\ procs' = Started(p, [Request("hook_load", "create", u) EXCEPT !.target = u])
          /\ resp' = NoResp
  /\ UNCHANGED <<stats, users>>

\* POST /api/entries while fewer than MaxEntries entries were ever created
CreateEntry(p, u, b, now) == nextId <= MaxEntries /\ Create(p, u, b, now)

\* PUT /api/entries/:id: validate(updateEntrySchema), Entry.findOneAndUpdate
UpdateEntry(p, u, i, b) ==
  /\ Idle(p)
  /\ IF ~ValidUpdate(b)
     THEN /\ Answer(p, Error("update", 400))
          /\ UNCHANGED <<entries, users>>
     ELSE IF Matching(i, u) = {}
     THEN /\ Answer(p, Error("update", 404))
          /\ UNCHANGED <<entries, users>>
     ELSE \E k \in Matching(i, u) :
            /\ entries' = [entries EXCEPT ![k] = ApplyUpdate(@, b)]
            /\ Answer(p, [Reply("update", u, i, 200) EXCEPT
                            !.owner = Some(entries[k].userId)])
  /\ UNCHANGED <<stats, nextId, users>>

\* the isFavorite the entry i had before the toggle just answered, when the request
\* just answered was a successful toggle of entry i
Prior(i) ==
  IF resp.op = "toggle" /\ resp.status = 200 /\ resp.req # None /\ resp.req[1].id = i
  THEN Some(resp.req[1].before) ELSE None

\* PATCH /api/entries/:id/favorite: Entry.findOne; with noting, the request keeps
\* the id of its entry, the isFavorite it found and the one before the previous toggle
ToggleFindNoting(p, u, i, noting) ==
  /\ Idle(p)
  /\ IF Matching(i, u) = {}
     THEN Answer(p, Error("toggle", 404))
     ELSE \E k \in Matching(i, u) :
            /\ procs' = Started(p, [Request("toggle_save", "toggle", u) EXCEPT
                                      !.doc = Some(entries[k]),
                                      !.req = IF noting
                                              THEN Some([id |-> i,
                                                         before |-> entries[k].isFavorite,
                                                         prior |-> Prior(i)])
                                              ELSE None])
            /\ resp' = NoResp
  /\ UNCHANGED <<entries, stats, nextId, users>>

\* PATCH /api/entries/:id/favorite: Entry.findOne
ToggleFind(p, u, i) == ToggleFindNoting(p, u, i, FALSE)

\* variant of ToggleSave: entry.isFavorite = true
ToggleSaveSet(p) ==
  /\ procs[p].pc = "toggle_save"
  /\ LET doc == procs[p].doc[1]
         assigned == PreSave([doc EXCEPT !.isFavorite = TRUE])
     IN IF ById(doc.id) = {}
        THEN /\ Finish(p, Error("toggle", 500))
             /\ UNCHANGED <<entries, users>>
        ELSE \E k \in ById(doc.id) :
               /\ entries' = [entries EXCEPT ![k] = SaveModified(@, doc, assigned)]
               /\ procs' = [procs EXCEPT ![p].pc = "hook_load", ![p].target = doc.userId,
                                         ![p].doc = None]
               /\ resp' = NoResp
  /\ UNCHANGED <<stats, nextId, users>>

\* PATCH /api/entries/:id/favorite: entry.isFavorite = !entry.isFavorite; entry.save()
\* (pre("save") runs on the loaded document; the modified paths are written to the
\* document with that _id; when it is gone the save rejects and the route answers 500;
\* the hook that follows recomputes the stats of the document's userId)
ToggleSave(p) ==
  /\ procs[p].pc = "toggle_save"
  /\ LET doc == procs[p].doc[1]
         assigned == PreSave([doc EXCEPT !.isFavorite = ~doc.isFavorite])
     IN IF ById(doc.id) = {}
        THEN /\ Finish(p, Error("toggle", 500))
             /\ UNCHANGED <<entries, users>>
        ELSE \E k \in ById(doc.id) :
               /\ entries' = [entries EXCEPT ![k] = SaveModified(@, doc, assigned)]
               /\ procs' = [procs EXCEPT ![p].pc = "hook_load", ![p].target = doc.userId,
                                         ![p].doc = None]
               /\ resp' = NoResp
  /\ UNCHANGED <<stats, nextId, users>>

\* DELETE /api/entries/:id: Entry.findOneAndDelete; the hook that follows recomputes
\* the stats of the deleted document's userId
DeleteEntry(p, u, i) ==
  /\ Idle(p)
  /\ IF Matching(i, u) = {}
     THEN /\ Answer(p, Error("delete", 404))
          /\ UNCHANGED <<entries, users>>
     ELSE \E k \in Matching(i, u) :
            /\ entries' = RemoveAt(entries, k)
            /\ procs' = Started(p, [Request("hook_load", "delete", u) EXCEPT
                                      !.target = entries[k].userId])
            /\ resp' = NoResp
  /\ UNCHANGED <<stats, nextId, users>>

\* ------------------------------------------------------- request parameters
\* a parameter value with its JavaScript type: a query-string value is a string
\* (n: its number, s: its characters, name: the string as a whole, for the strings
\* that are only compared, b: its truth value)
Num(n) == [t |-> "number", n |-> n, s |-> <<>>, name |-> "", b |-> FALSE]
Str(s) == [t |-> "string", n |-> 0, s |-> s, name |-> "", b |-> FALSE]
Name(name) == [t |-> "string", n |-> 0, s |-> <<>>, name |-> name, b |-> FALSE]
Bool(b) == [t |-> "boolean", n |-> 0, s |-> <<>>, name |-> "", b |-> b]
DateObject(n) == [t |-> "date", n |-> n, s |-> <<>>, name |-> "", b |-> FALSE]

DigitChars == <<"0", "1", "2", "3", "4", "5", "6", "7", "8", "9">>
IsDigit(c) == \E d \in 1..10 : DigitChars[d] = c
DigitValue(c) == (CHOOSE d \in 1..10 : DigitChars[d] = c) - 1

RECURSIVE Digits(_)
\* the decimal numeral of n, as it stands in a query string
Digits(n) ==
  IF n < 10 THEN <<DigitChars[n + 1]>>
  ELSE Append(Digits(n \div 10), DigitChars[(n % 10) + 1])

RECURSIVE LeadingDigits(_)
LeadingDigits(s) ==
  IF s = <<>> \/ ~IsDigit(Head(s)) THEN <<>> ELSE <<Head(s)>> \o LeadingDigits(Tail(s))

RECURSIVE NumeralValue(_)
NumeralValue(ds) ==
  IF ds = <<>> THEN 0 ELSE NumeralValue(SubSeq(ds, 1, Len(ds) - 1)) * 10 + DigitValue(ds[Len(ds)])

\* a number or NaN (None)
NaN == None

\* Number.parseInt(x): the value of the leading decimal digits
ParseInt(x) ==
  IF x.t = "number" THEN Some(x.n)
  ELSE IF LeadingDigits(x.s) = <<>> THEN NaN ELSE Some(NumeralValue(LeadingDigits(x.s)))

\* ToNumber(x), the conversion of the operands of * - < and >: a string converts
\* when all of it is a numeral
ToNumber(x) ==
  IF x.t = "number" THEN Some(x.n)
  ELSE IF x.s # <<>> /\ LeadingDigits(x.s) = x.s THEN Some(NumeralValue(x.s)) ELSE NaN

\* if (value), for a name (mood, category) and for a text (search term): an absent
\* value and the empty string do not filter
Truthy(opt) == opt # None /\ opt[1].name # ""
TruthyText(opt) == opt # None /\ opt[1].s # <<>>

\* ------------------------------------------------------------ calendar dates
\* A date is a count of half days (ticks) since 2024-01-01T00:00Z.  The server's
\* time zone tz is the number of ticks its local time is ahead of UTC.
IsLeap(y) == y % 4 = 0 /\ (y % 100 # 0 \/ y % 400 = 0)
DaysInMonth(y, m) ==
  IF m = 2 THEN (IF IsLeap(y) THEN 29 ELSE 28)
  ELSE IF m \in {4, 6, 9, 11} THEN 30 ELSE 31

\* the month index (months since January 2024) of month m of year y, as the Date
\* constructor normalises it: a month outside 1..12 rolls over into another year
MonthIndex(y, m) == (y - 2024) * 12 + (m - 1)
YearOfIndex(k) == 2024 + (k \div 12)
MonthOfIndex(k) == (k % 12) + 1

RECURSIVE DaysBefore(_)
\* days from 2024-01-01 to the first day of month index k (negative before 2024)
DaysBefore(k) ==
  IF k = 0 THEN 0
  ELSE IF k < 0 THEN DaysBefore(k + 1) - DaysInMonth(YearOfIndex(k), MonthOfIndex(k))
  ELSE DaysBefore(k - 1) + DaysInMonth(YearOfIndex(k - 1), MonthOfIndex(k - 1))

\* new Date(y, m - 1, 1): local midnight of the first day of the month
MonthStart(k, tz) == 2 * DaysBefore(k) - tz
\* variant: new Date(y, m, 0), local midnight of the last day of the month
MonthEndMidnight(k, tz) == MonthStart(k + 1, tz) - 2
\* new Date(y, m, 0, 23, 59, 59, 999): the last tick of the month, local time
MonthEnd(k, tz) == MonthStart(k + 1, tz) - 1

\* date.toISOString().split("T")[0], $dateToString "%Y-%m-%d": the UTC day
UtcDay(d) == d \div 2
\* { year: { $year: "$date" }, month: { $month: "$date" } }: the UTC month
UtcMonth(d) == CHOOSE k \in 0..24 : 2 * DaysBefore(k) <= d /\ d < 2 * DaysBefore(k + 1)

\* today.setHours(0, 0, 0, 0): local midnight of the day of now
LocalDayStart(now, tz) == 2 * ((now + tz) \div 2) - tz

\* twelveMonthsAgo.setMonth(getMonth() - 12): the same local date a year before
TwelveMonthsAgo(now) == now - 2 * (IF UtcDay(now) < 60 THEN 365 ELSE 366)

\* YYYY-MM-DD, as a date stands in a query string
Pad2(n) == IF n < 10 THEN <<"0">> \o Digits(n) ELSE Digits(n)
IsoDate(y, m, d) == Digits(y) \o <<"-">> \o Pad2(m) \o <<"-">> \o Pad2(d)
\* date.toISOString().split("T")[0]: the UTC date of d as YYYY-MM-DD
DateKey(d) ==
  IsoDate(YearOfIndex(UtcMonth(d)), MonthOfIndex(UtcMonth(d)),
          UtcDay(d) - DaysBefore(UtcMonth(d)) + 1)

IsIsoDate(s) ==
  /\ Len(s) = 10
  /\ s[5] = "-" /\ s[8] = "-"
  /\ \A i \in {1, 2, 3, 4, 6, 7, 9, 10} : IsDigit(s[i])
  /\ NumeralValue(SubSeq(s, 6, 7)) \in 1..12
  /\ NumeralValue(SubSeq(s, 9, 10)) \in
       1..DaysInMonth(NumeralValue(SubSeq(s, 1, 4)), NumeralValue(SubSeq(s, 6, 7)))

\* new Date(x): a Date object is copied, a date-only string is midnight UTC of its
\* day, any other string is an Invalid Date (NaN)
NewDate(x) ==
  IF x.t = "date" THEN Some(x.n)
  ELSE IF IsIsoDate(x.s)
       THEN Some(2 * (DaysBefore(MonthIndex(NumeralValue(SubSeq(x.s, 1, 4)),
                                            NumeralValue(SubSeq(x.s, 6, 7))))
                      + NumeralValue(SubSeq(x.s, 9, 10)) - 1))
       ELSE NaN

\* if (startDate), if (endDate): an absent value and the empty string do not filter
TruthyDate(opt) == opt # None /\ (opt[1].t = "date" \/ opt[1].s # <<>>)

\* a query whose date casts to an Invalid Date is refused by the store (CastError)
DatesCast(o) ==
  /\ TruthyDate(o.startDate) => NewDate(o.startDate[1]) # NaN
  /\ TruthyDate(o.endDate) => NewDate(o.endDate[1]) # NaN

\* a variant of InDateRange: both bounds excluded
InDateRangeExclusive(e, o) ==
  /\ TruthyDate(o.startDate) => e.date > NewDate(o.startDate[1])[1]
  /\ TruthyDate(o.endDate) => e.date < NewDate(o.endDate[1])[1]

\* date: { $gte: new Date(startDate), $lte: new Date(endDate) } on one document
InDateRange(e, o) ==
  /\ TruthyDate(o.startDate) => e.date >= NewDate(o.startDate[1])[1]
  /\ TruthyDate(o.endDate) => e.date <= NewDate(o.endDate[1])[1]

\* ------------------------------------------------------------ the list query
\* the options of getEntriesWithFilters; intent: the page, the limit and the dates
\* the caller means (not read by the query)
Options(page, limit, mood, category, search, startDate, endDate, sortBy, sortOrder, isFavorite, intent) ==
  [page |-> page, limit |-> limit, mood |-> mood, category |-> category,
   search |-> search, startDate |-> startDate, endDate |-> endDate,
   sortBy |-> sortBy, sortOrder |-> sortOrder, isFavorite |-> isFavorite,
   intent |-> intent]

\* const { page = 1, limit = 10, sortBy = "date", sortOrder = "desc" } = options
DefaultPage == 1
DefaultLimit == 10
PageOf(o) == OrElse(o.page, Num(DefaultPage))
LimitOf(o) == OrElse(o.limit, Num(DefaultLimit))
SortByOf(o) == OrElse(o.sortBy, "date")
SortOrderOf(o) == OrElse(o.sortOrder, "desc")

\* the words of a content, as the text index sees them
WordsOf(content) ==
  {w \in {SplitWhitespace(Trim(content))[k] : k \in 1..Len(SplitWhitespace(Trim(content)))} :
     Len(w) > 0}

\* { $text: { $search: term } } on one document
TextMatch(e, term) == term \in WordsOf(e.content)

\* the query built by getEntriesWithFilters, on one document
ListFilter(e, u, o) ==
  /\ OwnedBy(e, u)
  /\ Truthy(o.mood) => e.mood = o.mood[1].name
  /\ Truthy(o.category) => e.category = o.category[1].name
  /\ (o.isFavorite # None /\ o.isFavorite[1].t = "boolean")
       => e.isFavorite = o.isFavorite[1].b
  /\ InDateRange(e, o)
  /\ TruthyText(o.search) => TextMatch(e, o.search[1].s)

\* the stored documents a filter selects
Stored == {entries[k] : k \in 1..Len(entries)}

RECURSIVE Orders(_)
\* the orders in which a query may return the documents S
Orders(S) ==
  IF S = {} THEN {<<>>}
  ELSE UNION {{<<x>> \o s : s \in Orders(S \ {x})} : x \in S}

\* .sort({ [field]: dir }): ascending for 1, descending for -1, documents with equal
\* keys in any order
Sorted(S, field, dir) ==
  {s \in Orders(S) :
     \A i, j \in 1..Len(s) :
        i < j => IF dir = 1 THEN s[i][field] <= s[j][field] ELSE s[i][field] >= s[j][field]}

\* a variant of Page: .skip is left out
PageFromStart(s, n, k) ==
  IF n = 0 THEN s ELSE SubSeq(s, 1, IF n < Len(s) THEN n ELSE Len(s))

\* .limit(n).skip(k) on a sorted result: a limit of 0 is no limit
Page(s, n, k) ==
  IF n = 0 THEN SubSeq(s, k + 1, Len(s))
  ELSE SubSeq(s, k + 1, IF k + n < Len(s) THEN k + n ELSE Len(s))

\* a variant of Pagination: hasNext with <= for <
PaginationInclusive(o, total) ==
  [currentPage |-> ParseInt(PageOf(o)),
   totalPages |-> Ceil(total, ToNumber(LimitOf(o))[1]),
   totalEntries |-> total,
   hasNext |-> ToNumber(PageOf(o))[1] * ToNumber(LimitOf(o))[1] <= total,
   hasPrev |-> ToNumber(PageOf(o))[1] > 1]

\* the pagination object returned with a page
Pagination(o, total) ==
  [currentPage |-> ParseInt(PageOf(o)),
   totalPages |-> Ceil(total, ToNumber(LimitOf(o))[1]),
   totalEntries |-> total,
   hasNext |-> ToNumber(PageOf(o))[1] * ToNumber(LimitOf(o))[1] < total,
   hasPrev |-> ToNumber(PageOf(o))[1] > 1]

\* GET /api/entries: this.find(query).sort(sortOptions).limit(limit * 1)
\* .skip((page - 1) * limit)
ListFind(p, u, o) ==
  /\ Idle(p)
  /\ UNCHANGED <<entries, stats, nextId, users>>
  /\ IF ~DatesCast(o)
     THEN Answer(p, [Error("list", 500) EXCEPT !.req = Some(o)])
     ELSE /\ \E s \in Sorted({e \in Stored : ListFilter(e, u, o)}, SortByOf(o),
                               IF SortOrderOf(o) = "desc" THEN -1 ELSE 1) :
               procs' = Started(p, [Request("list_count", "list", u) EXCEPT
                          !.req = Some(o),
                          !.acc = Some(Page(s, ToNumber(LimitOf(o))[1] * 1,
                                            (ToNumber(PageOf(o))[1] - 1) * ToNumber(LimitOf(o))[1]))])
          /\ resp' = NoResp

\* GET /api/entries: this.countDocuments(query) and the result
ListCount(p) ==
  /\ procs[p].pc = "list_count"
  /\ LET u == procs[p].user
         o == procs[p].req[1]
         total == Cardinality({e \in Stored : ListFilter(e, u, o)})
     IN Finish(p, [Reply("list", u, 0, 200) EXCEPT
                     !.req = Some(o),
                     !.body = Some([entries |-> procs[p].acc[1],
                                    pagination |-> Pagination(o, total)])])
  /\ UNCHANGED <<entries, stats, nextId, users>>

\* ---------------------------------------------------------------- read views
\* the groups [_id, count, words] of $group over the documents S, key[e] being the
\* group key of document e
GroupBy(S, key) ==
  {[_id |-> k,
    count |-> Cardinality({e \in S : key[e] = k}),
    words |-> SumWordCount(CHOOSE s \in Orders({e \in S : key[e] = k}) : TRUE)] :
     k \in {key[e] : e \in S}}

EntrySet(u) == {e \in Stored : OwnedBy(e, u)}

\* GET /api/entries/calendar/:year/:month
Calendar(p, u, year, month, tz) ==
  /\ Idle(p)
  /\ UNCHANGED <<entries, stats, nextId, users>>
  /\ IF ParseInt(year) = NaN \/ ParseInt(month) = NaN
     THEN Answer(p, [Error("calendar", 500) EXCEPT
                       !.req = Some([year |-> year, month |-> month, tz |-> tz])])
     ELSE LET k == MonthIndex(ParseInt(year)[1], ParseInt(month)[1])
              S == {e \in Stored : OwnedBy(e, u) /\ e.date >= MonthStart(k, tz)
                                       /\ e.date <= MonthEnd(k, tz)}
          IN \E s \in Sorted(S, "date", 1) :
               Answer(p, [Reply("calendar", u, 0, 200) EXCEPT
                  !.req = Some([year |-> year, month |-> month, tz |-> tz]),
                  !.body = Some([year |-> ParseInt(year)[1],
                                 month |-> ParseInt(month)[1],
                                 entries |-> [key \in {DateKey(e.date) : e \in S} |->
                                    SelectSeq(s, LAMBDA e : DateKey(e.date) = key)],
                                 totalEntries |-> Len(s)])])

\* the query of GET /api/entries/search, on one document
SearchFilter(e, u, o) ==
  /\ OwnedBy(e, u)
  /\ TruthyText(o.q) => TextMatch(e, o.q[1].s)
  /\ Truthy(o.mood) => e.mood = o.mood[1].name
  /\ Truthy(o.category) => e.category = o.category[1].name
  /\ InDateRange(e, o)

\* the text score of a document for a term: weight 5 for each occurrence of the
\* term in the content
TermScore(e, term) ==
  5 * Len(SelectSeq(SplitWhitespace(Trim(e.content)), LAMBDA w : w = term))

\* { $meta: "textScore" }
TextScore(e, o) == IF TruthyText(o.q) THEN TermScore(e, o.q[1].s) ELSE 0

\* .sort({ score: { $meta: "textScore" }, date: -1 }) does not put a after b
ByScoreThenDate(a, b, o) ==
  \/ TextScore(a, o) > TextScore(b, o)
  \/ TextScore(a, o) = TextScore(b, o) /\ a.date >= b.date

DefaultSearchLimit == 20

\* GET /api/entries/search: sorting by the text score of a query without $text is
\* accepted or refused, depending on the server version
Search(p, u, o) ==
  /\ Idle(p)
  /\ UNCHANGED <<entries, stats, nextId, users>>
  /\ \/ /\ ~TruthyText(o.q)
        /\ Answer(p, Error("search", 500))
     \/ \E s \in {t \in Orders({e \in Stored : SearchFilter(e, u, o)}) :
                    \A i, j \in 1..Len(t) : i < j => ByScoreThenDate(t[i], t[j], o)} :
          Answer(p, [Reply("search", u, 0, 200) EXCEPT
             !.req = Some(o),
             !.body = Some([entries |-> Page(s, ParseInt(OrElse(o.limit, Num(DefaultSearchLimit)))[1], 0),
                            total |-> Len(Page(s, ParseInt(OrElse(o.limit, Num(DefaultSearchLimit)))[1], 0))])])

\* what a request of user u follows: the delete of u that has just been answered 200
\* (how its recomputation went, whether it ran alone, how many entries it left u),
\* or nothing of the kind
After(u) ==
  IF resp.op = "delete" /\ resp.status = 200 /\ resp.user = u
  THEN [op |-> "delete", recompute |-> resp.recompute, solo |-> resp.solo,
        left |-> Len(EntriesOf(u))]
  ELSE [op |-> "none", recompute |-> "none", solo |-> TRUE, left |-> 0]

\* the results of the summary's queries before any of them has run
NoSummary(after) ==
  [after |-> after, totalEntries |-> 0, totalWords |-> 0, moodDistribution |-> <<>>,
   categoryDistribution |-> <<>>, monthlyActivity |-> <<>>]

Step(p, pc, acc) == [procs EXCEPT ![p].pc = pc, ![p].acc = Some(acc)]

\* GET /api/entries/stats/summary, the auth middleware: req.user = User.findById
SummaryAuth(p, u) ==
  /\ Idle(p)
  /\ procs' = Started(p, [Request("summary_count", "summary", u) EXCEPT
                 !.loaded = Some(stats[u]),
                 !.acc = Some(NoSummary(After(u)))])
  /\ resp' = NoResp
  /\ UNCHANGED <<entries, stats, nextId, users>>

\* Entry.countDocuments({ userId })
SummaryCount(p) ==
  /\ procs[p].pc = "summary_count"
  /\ procs' = Step(p, "summary_words",
                   [procs[p].acc[1] EXCEPT !.totalEntries = Len(EntriesOf(procs[p].user))])
  /\ resp' = NoResp
  /\ UNCHANGED <<entries, stats, nextId, users>>

\* $group { _id: null, total: { $sum: "$wordCount" } }, totalWordsResult[0]?.total || 0
SummaryWords(p) ==
  /\ procs[p].pc = "summary_words"
  /\ procs' = Step(p, "summary_moods",
                   [procs[p].acc[1] EXCEPT !.totalWords = SumWordCount(EntriesOf(procs[p].user))])
  /\ resp' = NoResp
  /\ UNCHANGED <<entries, stats, nextId, users>>

\* $group { _id: "$mood", count }, $sort { count: -1 }
SummaryMoods(p) ==
  /\ procs[p].pc = "summary_moods"
  /\ \E s \in Sorted(GroupBy(EntrySet(procs[p].user), [e \in Stored |-> e.mood]), "count", -1) :
       procs' = Step(p, "summary_categories",
                     [procs[p].acc[1] EXCEPT !.moodDistribution = s])
  /\ resp' = NoResp
  /\ UNCHANGED <<entries, stats, nextId, users>>

\* $group { _id: "$category", count }, $sort { count: -1 }
SummaryCategories(p) ==
  /\ procs[p].pc = "summary_categories"
  /\ \E s \in Sorted(GroupBy(EntrySet(procs[p].user), [e \in Stored |-> e.category]), "count", -1) :
       procs' = Step(p, "summary_monthly",
                     [procs[p].acc[1] EXCEPT !.categoryDistribution = s])
  /\ resp' = NoResp
  /\ UNCHANGED <<entries, stats, nextId, users>>

\* $match { date: { $gte: twelveMonthsAgo } }, $group by year and month,
\* $sort { "_id.year": 1, "_id.month": 1 }
SummaryMonthly(p, now) ==
  /\ procs[p].pc = "summary_monthly"
  /\ \E s \in Sorted(GroupBy({e \in EntrySet(procs[p].user) : e.date >= TwelveMonthsAgo(now)},
                             [e \in Stored |-> UtcMonth(e.date)]), "_id", 1) :
       procs' = Step(p, "summary_streak",
                     [procs[p].acc[1] EXCEPT !.monthlyActivity = s])
  /\ resp' = NoResp
  /\ UNCHANGED <<entries, stats, nextId, users>>

\* variant: Math.floor(totalWords / totalEntries)
RoundDown(a, b) == a \div b
\* Math.round(totalWords / totalEntries)
Round(a, b) == (2 * a + b) \div (2 * b)

\* a variant of SummaryStreak: the summary stores the totals it answers in the
\* user's stats
SummaryStreakSaving(p) ==
  /\ procs[p].pc = "summary_streak"
  /\ LET u == procs[p].user
         acc == procs[p].acc[1]
     IN /\ stats' = [stats EXCEPT ![u].totalEntries = acc.totalEntries,
                                  ![u].totalWords = acc.totalWords]
        /\ Finish(p, [Reply("summary", u, 0, 200) EXCEPT !.req = Some(acc.after)])
  /\ UNCHANGED <<entries, nextId, users>>

\* $group by day, $sort { _id: -1 }, $limit 365, and the response
SummaryStreak(p) ==
  /\ procs[p].pc = "summary_streak"
  /\ LET u == procs[p].user
         acc == procs[p].acc[1]
     IN \E s \in Sorted(GroupBy(EntrySet(u), [e \in Stored |-> UtcDay(e.date)]), "_id", -1) :
          Finish(p, [Reply("summary", u, 0, 200) EXCEPT
             !.req = Some(acc.after),
             !.body = Some([totalEntries |-> acc.totalEntries,
                            totalWords |-> acc.totalWords,
                            moodDistribution |-> acc.moodDistribution,
                            categoryDistribution |-> acc.categoryDistribution,
                            monthlyActivity |-> acc.monthlyActivity,
                            streakData |-> Page(s, 365, 0),
                            averageWordsPerEntry |->
                              IF acc.totalEntries > 0
                              THEN Round(acc.totalWords, acc.totalEntries) ELSE 0,
                            userStats |-> procs[p].loaded[1]])])
  /\ UNCHANGED <<entries, stats, nextId, users>>

\* GET /api/users/dashboard: User.findById(req.userId)
DashboardLoad(p, u) ==
  /\ Idle(p)
  /\ procs' = Started(p, [Request("dashboard_recent", "dashboard", u) EXCEPT
                 !.target = u, !.loaded = Some(stats[u])])
  /\ resp' = NoResp
  /\ UNCHANGED <<entries, stats, nextId, users>>

\* Entry.find({ userId }).sort({ date: -1 }).limit(5)
DashboardRecent(p) ==
  /\ procs[p].pc = "dashboard_recent"
  /\ \E s \in Sorted(EntrySet(procs[p].user), "date", -1) :
       procs' = Step(p, "dashboard_today",
                     [recentEntries |-> Page(s, 5, 0), todayEntry |-> None,
                      now |-> 0, tz |-> 0])
  /\ resp' = NoResp
  /\ UNCHANGED <<entries, stats, nextId, users>>

\* Entry.findOne({ userId, date: { $gte: today, $lt: tomorrow } }): any one of the
\* matching documents, or null
DashboardToday(p, now, tz) ==
  /\ procs[p].pc = "dashboard_today"
  /\ LET S == {e \in EntrySet(procs[p].user) :
                  e.date >= LocalDayStart(now, tz) /\ e.date < LocalDayStart(now, tz) + 2}
     IN \E t \in (IF S = {} THEN {None} ELSE {Some(e) : e \in S}) :
          procs' = Step(p, "dashboard_find",
                        [procs[p].acc[1] EXCEPT !.todayEntry = t, !.now = now, !.tz = tz])
  /\ resp' = NoResp
  /\ UNCHANGED <<entries, stats, nextId, users>>

\* user.updateStats(): Entry.find({ userId: this._id })
DashboardFind(p) ==
  /\ procs[p].pc = "dashboard_find"
  /\ \E found \in FindOrders(EntriesOf(procs[p].target)) :
       procs' = [procs EXCEPT ![p].pc = "dashboard_save", ![p].found = found]
  /\ resp' = NoResp
  /\ UNCHANGED <<entries, stats, nextId, users>>

\* user.updateStats(): this.save(), and the response with the stats assigned
DashboardSave(p) ==
  /\ procs[p].pc = "dashboard_save"
  /\ LET u == procs[p].user
         acc == procs[p].acc[1]
     IN /\ stats' = [stats EXCEPT
                       ![u] = SaveModified(@, procs[p].loaded[1], StatsOf(procs[p].found))]
        /\ Finish(p, [Reply("dashboard", u, 0, 200) EXCEPT
              !.recompute = "saved",
              !.req = Some([now |-> acc.now, tz |-> acc.tz]),
              !.body = Some([stats |-> StatsOf(procs[p].found),
                             recentEntries |-> acc.recentEntries,
                             todayEntry |-> acc.todayEntry,
                             hasWrittenToday |-> acc.todayEntry # None])])
  /\ UNCHANGED <<entries, nextId, users>>

\* GET /api/users/dashboard: a store call of the handler throws
DashboardFail(p) ==
  /\ procs[p].pc \in {"dashboard_recent", "dashboard_today", "dashboard_find",
                      "dashboard_save"}
  /\ Finish(p, Error("dashboard", 500))
  /\ UNCHANGED <<entries, stats, nextId, users>>

\* GET /api/entries/export/json: Entry.find({ userId }).sort({ date: -1 })
ExportFind(p, u) ==
  /\ Idle(p)
  /\ \E s \in Sorted(EntrySet(u), "date", -1) :
       procs' = Started(p, [Request("export_user", "export", u) EXCEPT !.found = s])
  /\ resp' = NoResp
  /\ UNCHANGED <<entries, stats, nextId, users>>

\* GET /api/entries/export/json: User.findById(req.userId) and the response
ExportUser(p) ==
  /\ procs[p].pc = "export_user"
  /\ Finish(p, [Reply("export", procs[p].user, 0, 200) EXCEPT
        !.body = Some([totalEntries |-> Len(procs[p].found),
                       entries |-> procs[p].found])])
  /\ UNCHANGED <<entries, stats, nextId, users>>

\* ------------------------------------------------------------ authentication
\* what a request presents as its Authorization header: none, one that does not
\* start with "Bearer ", "Bearer " with nothing after it, a token jwt.verify
\* refuses as invalid or as expired, or a token signed for the user id user
Credential(kind, user) == [kind |-> kind, user |-> user]

\* positions of the user documents matching { _id: u }
UserById(u) == {k \in 1..Len(users) : users[k].id = u}

\* a variant of Auth: the account is looked up, its isActive is not looked at
AuthAnyAccount(c) ==
  IF c.kind # "valid" THEN None
  ELSE IF UserById(c.user) = {} THEN None
  ELSE Some(c.user)

\* the auth middleware: the user id a credential resolves to, or None when the
\* request is answered 401
Auth(c) ==
  IF c.kind # "valid" THEN None
  ELSE IF UserById(c.user) = {} THEN None
  ELSE IF \E k \in UserById(c.user) : ~users[k].isActive THEN None
  ELSE Some(c.user)

\* the routes behind the auth middleware
AuthOps ==
  {"list", "search", "get", "create", "update", "toggle", "delete", "calendar", "summary",
   "export", "profile", "dashboard"}

\* res.status(401).json({ error }) of the auth middleware; next() is not called
Unauthorized(p, op, c) ==
  /\ Idle(p)
  /\ Auth(c) = None
  /\ Answer(p, [Error(op, 401) EXCEPT !.req = Some(c)])
  /\ UNCHANGED <<entries, stats, nextId, users>>

\* GET /api/users/profile: User.findById(req.userId)
Profile(p, u) ==
  /\ Idle(p)
  /\ IF UserById(u) = {}
     THEN Answer(p, Error("profile", 404))
     ELSE \E k \in UserById(u) :
            Answer(p, [Reply("profile", u, 0, 200) EXCEPT !.body = Some(users[k])])
  /\ UNCHANGED <<entries, stats, nextId, users>>

\* ------------------------------------------------------------- registration
\* String.prototype.toLowerCase, on the letters the addresses are written with
LowerChar(c) == IF c = "A" THEN "a" ELSE IF c = "C" THEN "c" ELSE c
Lower(e) == [k \in 1..Len(e) |-> LowerChar(e[k])]

\* the users whose stored email is e: the setter lowercase of the schema is applied
\* to the value of a query as it is to the value of a document
UsersByEmail(e) == {k \in 1..Len(users) : users[k].email = Lower(e)}

\* the _id of the next user document
NewUserId == <<"u1", "u2", "u3", "u4">>[Len(users) + 1]

\* the answers of the register route: the error of line 21 names the email, the
\* error of the catch of line 41 does not
EmailExists(e) == [Error("register", 400) EXCEPT !.req = Some(e), !.body = Some("email")]
RegistrationFailed(e) == [Error("register", 500) EXCEPT !.req = Some(e), !.body = Some("none")]
RegisteredUser(e, u) ==
  [Reply("register", u, 0, 201) EXCEPT !.req = Some(e), !.body = Some("user")]

\* POST /api/auth/register with the email e: User.findOne({ email })
RegisterFind(p, e) ==
  /\ Idle(p)
  /\ IF UsersByEmail(e) # {}
     THEN Answer(p, EmailExists(e))
     ELSE /\ procs' = Started(p, [Request("register_save", "register", "none") EXCEPT
                                    !.req = Some(e)])
          /\ resp' = NoResp
  /\ UNCHANGED <<entries, stats, nextId, users>>

\* POST /api/auth/register: user.save() inserts the document with its email in lower
\* case; the unique index refuses a second document with the email (E11000), which
\* the catch of the route answers
RegisterSave(p) ==
  /\ procs[p].pc = "register_save"
  /\ LET e == procs[p].req[1] IN
       IF \E k \in 1..Len(users) : users[k].email = Lower(e)
       THEN /\ Finish(p, RegistrationFailed(e))
            /\ users' = users
       ELSE /\ Finish(p, RegisteredUser(e, NewUserId))
            /\ users' = Append(users, Account(NewUserId, Lower(e)))
  /\ UNCHANGED <<entries, stats, nextId>>

\* ------------------------------------------------------------ specifications
\* the _ids of the stored entries
StoredIds == {entries[k].id : k \in 1..Len(entries)}

\* the entry mutations of the workers P on behalf of the users U, about the entries
\* I, with bodies CB / UB at the times NW
Mutations(P, U, I, CB, UB, NW) ==
  \/ \E p \in P, u \in U, b \in CB, now \in NW : CreateEntry(p, u, b, now)
  \/ \E p \in P, u \in U, i \in I, b \in UB : UpdateEntry(p, u, i, b)
  \/ \E p \in P, u \in U, i \in I : ToggleFind(p, u, i)
  \/ \E p \in P : ToggleSave(p)
  \/ \E p \in P, u \in U, i \in I : DeleteEntry(p, u, i)
  \/ \E p \in P : HookLoad(p)
  \/ \E p \in P : HookFind(p)
  \/ \E p \in P : HookSave(p)

Contents == {<<"a">>, <<"a", " ", "b">>, <<" ">>}

\* bodies of POST /api/entries: well-formed ones with and without a wordCount and a
\* date, one with empty content and one without content
CreateBodies ==
  {Body(Some(c), w, d, Some("happy"), Some("Personal")) :
     c \in Contents, w \in {None, Some(MaxWordCount)}, d \in {None, Some(1)}}
  \cup {Body(Some(<<>>), None, None, Some("happy"), Some("Personal")),
        Body(None, None, None, Some("happy"), Some("Personal"))}

\* bodies of PUT /api/entries/:id: every field is optional
UpdateBodies ==
  {Body(c, w, None, None, None) :
     c \in {None, Some(<<"a">>), Some(<<"a", " ", "b">>)},
     w \in {None, Some(MaxWordCount)}}
  \cup {Body(None, None, Some(2), None, None),
        Body(Some(<<>>), None, None, None, None)}

\* one well-formed body each: a create, an update that changes the content and an
\* update that sets the content it finds
PlainCreate == {Body(Some(<<"a">>), None, None, Some("happy"), Some("Personal"))}
PlainUpdate == {Body(Some(<<"a", " ", "b">>), None, None, None, None)}
SameUpdate == {Body(Some(<<"a">>), None, None, None, None)}

\* one request at a time, one user, every kind of body, a store that may fail
Next ==
  \/ Mutations({1}, {"u1"}, EntryIds, CreateBodies, UpdateBodies, Dates)
  \/ HookFail(1)
  \/ \E i \in EntryIds : GetEntry(1, "u1", i)
Spec == Init /\ [][Next]_vars

\* two users at a time, each through a worker of their own, a store that never fails
NextOwn ==
  \/ Mutations({1}, {"u1"}, EntryIds, PlainCreate, PlainUpdate, {1})
  \/ Mutations({2}, {"u2"}, EntryIds, PlainCreate, PlainUpdate, {1})
  \/ \E i \in EntryIds : GetEntry(1, "u1", i)
  \/ \E i \in EntryIds : GetEntry(2, "u2", i)
SpecOwn == Init /\ [][NextOwn]_vars

\* two requests of one user at a time, a store that never fails
NextRace == Mutations(Procs, {"u1"}, EntryIds, PlainCreate, SameUpdate, {1})
SpecRace == Init /\ [][NextRace]_vars

\* two requests of one user at a time, a store that may fail
NextFail ==
  \/ Mutations(Procs, {"u1"}, EntryIds, PlainCreate, SameUpdate, {1})
  \/ \E p \in Procs : HookFail(p)
SpecFail == Init /\ [][NextFail]_vars

\* ---------------------------------------------------------------- the reads
MaxPage == 2                   \* the greatest page a list query asks for
MaxLimit == 2                  \* the greatest limit a list query asks for

\* two kinds of entries: a one-word happy one dated now, a two-word sad one dated 2
ReadCreate ==
  {Body(Some(<<"a">>), None, None, Some("happy"), Some("Personal")),
   Body(Some(<<"a", " ", "b">>), None, Some(2), Some("sad"), Some("Work"))}

\* a body of PUT /api/entries/:id without any field
EmptyUpdate == {Body(None, None, None, None, None)}

NoIntent ==
  [page |-> DefaultPage, limit |-> DefaultLimit, startDate |-> None, endDate |-> None,
   favorite |-> None]
AllEntries ==
  Options(None, None, None, None, None, None, None, None, None, None, NoIntent)

\* list queries asking for page n with limit m, written in the query string
PagedQueries ==
  {[AllEntries EXCEPT !.page = Some(Str(Digits(n))), !.limit = Some(Str(Digits(m))),
                      !.intent.page = n, !.intent.limit = m] :
     n \in 1..MaxPage, m \in 1..MaxLimit}
  \cup {[AllEntries EXCEPT !.page = Some(Str(Digits(MaxPage))),
                           !.intent.page = MaxPage],
        [AllEntries EXCEPT !.page = Some(Num(MaxPage)), !.limit = Some(Num(1)),
                           !.intent.page = MaxPage, !.intent.limit = 1]}

\* list queries with one filter or sort parameter each, one for a second page and
\* one with several parameters
FilterQueries ==
  {[AllEntries EXCEPT !.mood = Some(Name("happy"))],
   [AllEntries EXCEPT !.category = Some(Name("Work"))],
   [AllEntries EXCEPT !.isFavorite = Some(Bool(TRUE))],
   [AllEntries EXCEPT !.isFavorite = Some(Name("true"))],
   [AllEntries EXCEPT !.search = Some(Str(<<"a">>))],
   [AllEntries EXCEPT !.startDate = Some(Str(IsoDate(2024, 1, 2)))],
   [AllEntries EXCEPT !.endDate = Some(DateObject(1))],
   [AllEntries EXCEPT !.sortBy = Some("wordCount"), !.sortOrder = Some("asc")],
   [AllEntries EXCEPT !.page = Some(Str(Digits(2))), !.limit = Some(Str(Digits(1))),
                      !.intent.page = 2, !.intent.limit = 1],
   [AllEntries EXCEPT !.mood = Some(Name("happy")), !.isFavorite = Some(Bool(FALSE)),
                      !.page = Some(Str(Digits(1))), !.limit = Some(Str(Digits(1))),
                      !.intent.page = 1, !.intent.limit = 1]}

ListQueries == {AllEntries} \cup FilterQueries

SearchQuery(q, mood, limit) ==
  [q |-> q, mood |-> mood, category |-> None, startDate |-> None, endDate |-> None,
   limit |-> limit]
SearchQueries ==
  {SearchQuery(Some(Str(<<"a">>)), None, None),
   SearchQuery(Some(Str(<<"a">>)), Some(Name("sad")), Some(Str(Digits(1)))),
   SearchQuery(None, None, None)}

\* the read requests of the workers P on behalf of the users U, at the times NW of
\* a server in one of the time zones TZ
Reads(P, U, NW, TZ) ==
  \/ \E p \in P, u \in U, o \in ListQueries : ListFind(p, u, o)
  \/ \E p \in P : ListCount(p)
  \/ \E p \in P, u \in U, o \in SearchQueries : Search(p, u, o)
  \/ \E p \in P, u \in U, m \in 1..2, tz \in TZ :
       Calendar(p, u, Str(Digits(2024)), Str(Digits(m)), tz)
  \/ \E p \in P, u \in U : SummaryAuth(p, u)
  \/ \E p \in P : SummaryCount(p)
  \/ \E p \in P : SummaryWords(p)
  \/ \E p \in P : SummaryMoods(p)
  \/ \E p \in P : SummaryCategories(p)
  \/ \E p \in P, now \in NW : SummaryMonthly(p, now)
  \/ \E p \in P : SummaryStreak(p)
  \/ \E p \in P, u \in U : DashboardLoad(p, u)
  \/ \E p \in P : DashboardRecent(p)
  \/ \E p \in P, now \in NW, tz \in TZ : DashboardToday(p, now, tz)
  \/ \E p \in P : DashboardFind(p)
  \/ \E p \in P : DashboardSave(p)
  \/ \E p \in P, u \in U : ExportFind(p, u)
  \/ \E p \in P : ExportUser(p)

\* two users, one request at a time, a store that never fails; the first user
\* writes entries of two kinds, the second of one
NextRead ==
  \/ Mutations({1}, {"u1"}, EntryIds, ReadCreate, EmptyUpdate, {1})
  \/ Mutations({1}, {"u2"}, EntryIds, PlainCreate, EmptyUpdate, {1})
  \/ Reads({1}, Users, {1}, {0})
SpecRead == Init /\ [][NextRead]_vars

\* one user, one request at a time: creates, deletes and list queries for every page
\* and limit
NextList ==
  \/ \E b \in PlainCreate, now \in Dates : CreateEntry(1, "u1", b, now)
  \/ \E i \in EntryIds : DeleteEntry(1, "u1", i)
  \/ HookLoad(1)
  \/ HookFind(1)
  \/ HookSave(1)
  \/ \E o \in {AllEntries} \cup PagedQueries : ListFind(1, "u1", o)
  \/ ListCount(1)
SpecList == Init /\ [][NextList]_vars

\* two kinds of entries: "a" dated 2, happy, and "a a" dated now, sad
FilterCreate ==
  {Body(Some(<<"a">>), None, Some(2), Some("happy"), Some("Personal")),
   Body(Some(<<"a", " ", "a">>), None, None, Some("sad"), Some("Work"))}

\* list queries with a mood or a category outside the enumerations, with the
\* favorite flag as a boolean and as it stands in a query string, and with and
\* without a search term and a sort
FilterChecks ==
  {AllEntries,
   [AllEntries EXCEPT !.mood = Some(Name("happy"))],
   [AllEntries EXCEPT !.mood = Some(Name("grumpy"))],
   [AllEntries EXCEPT !.category = Some(Name("Chores"))],
   [AllEntries EXCEPT !.search = Some(Str(<<"a">>))],
   [AllEntries EXCEPT !.search = Some(Str(<<"a">>)), !.sortBy = Some("date"),
                      !.sortOrder = Some("asc")],
   [AllEntries EXCEPT !.sortBy = Some("wordCount"), !.sortOrder = Some("asc")],
   [AllEntries EXCEPT !.sortBy = Some("wordCount")]}
  \cup {[AllEntries EXCEPT !.isFavorite = Some(Bool(f)), !.intent.favorite = Some(f)] :
          f \in BOOLEAN}
  \cup {[AllEntries EXCEPT !.isFavorite = Some(Name(IF f THEN "true" ELSE "false")),
                           !.intent.favorite = Some(f)] : f \in BOOLEAN}

\* one user, one request at a time: creates, favorite toggles, deletes and list
\* queries with filters
NextFilters ==
  \/ \E b \in FilterCreate : CreateEntry(1, "u1", b, 1)
  \/ \E i \in EntryIds : ToggleFind(1, "u1", i)
  \/ ToggleSave(1)
  \/ \E i \in EntryIds : DeleteEntry(1, "u1", i)
  \/ HookLoad(1)
  \/ HookFind(1)
  \/ HookSave(1)
  \/ \E o \in FilterChecks : ListFind(1, "u1", o)
  \/ ListCount(1)
SpecFilters == Init /\ [][NextFilters]_vars

LastTick == 5                  \* the latest date of an entry of the date-range runs

\* entries dated at every tick up to LastTick
DatedCreate ==
  {Body(Some(<<"a">>), None, Some(d), Some("happy"), Some("Personal")) : d \in 1..LastTick}

\* how a caller writes a start date, with the date meant: absent, the empty string,
\* the day 2024-01-02 (midnight UTC, tick 2), a Date object, a malformed string
StartDates ==
  {<<None, None>>, <<Some(Str(<<>>)), None>>, <<Some(Str(IsoDate(2024, 1, 2))), Some(2)>>,
   <<Some(DateObject(3)), Some(3)>>, <<Some(Str(<<"x">>)), None>>}
EndDates ==
  {<<None, None>>, <<Some(Str(IsoDate(2024, 1, 2))), Some(2)>>,
   <<Some(Str(IsoDate(2024, 1, 3))), Some(4)>>, <<Some(DateObject(3)), Some(3)>>}
DateQueries ==
  {[AllEntries EXCEPT !.startDate = sd[1], !.endDate = ed[1],
                      !.intent.startDate = sd[2], !.intent.endDate = ed[2]] :
     sd \in StartDates, ed \in EndDates}

\* one user, one request at a time: dated creates, deletes and list queries over
\* date ranges
NextDates ==
  \/ \E b \in DatedCreate : CreateEntry(1, "u1", b, 1)
  \/ \E i \in EntryIds : DeleteEntry(1, "u1", i)
  \/ HookLoad(1)
  \/ HookFind(1)
  \/ HookSave(1)
  \/ \E o \in DateQueries : ListFind(1, "u1", o)
  \/ ListCount(1)
SpecDates == Init /\ [][NextDates]_vars

\* entries dated at the ticks around midnight of 2024-02-01: 61 is noon of
\* 2024-01-31 in UTC, 62 and 63 are 2024-02-01
CalendarTicks == 61..63
CalendarCreate ==
  {Body(Some(<<"a">>), None, Some(d), Some("happy"), Some("Personal")) : d \in CalendarTicks}

\* the :year and :month of a calendar request: the months around the entries, a
\* month without entries, a month number past 12, texts that are no number
CalendarMonths ==
  {<<Str(Digits(2024)), Str(Digits(1))>>, <<Str(Digits(2024)), Str(Pad2(2))>>,
   <<Str(Digits(2024)), Str(Digits(3))>>, <<Str(Digits(2023)), Str(Digits(14))>>,
   <<Str(Digits(2024)), Str(<<"x">>)>>, <<Str(<<"x">>), Str(Digits(1))>>}

\* the server's time zone: UTC, or twelve hours ahead of it
TimeZones == {0, 1}

\* two users, one request at a time: dated creates, deletes and calendar requests
NextCalendar ==
  \/ \E u \in Users, b \in CalendarCreate : CreateEntry(1, u, b, 1)
  \/ \E u \in Users, i \in EntryIds : DeleteEntry(1, u, i)
  \/ HookLoad(1)
  \/ HookFind(1)
  \/ HookSave(1)
  \/ \E u \in Users, ym \in CalendarMonths, tz \in TimeZones :
       Calendar(1, u, ym[1], ym[2], tz)
SpecCalendar == Init /\ [][NextCalendar]_vars

MaxRecent == 6                 \* entries ever created in a dashboard run

\* an entry dated now (no date in the body), or three ticks later
RecentCreate(now) ==
  {Body(Some(<<"a">>), None, d, Some("happy"), Some("Personal")) : d \in {None, Some(now + 3)}}

\* one user, one request at a time, the clock at tick 2 * nextId: creates and
\* dashboard requests, on a server in UTC or twelve hours ahead of it
NextDashboard ==
  \/ \E b \in RecentCreate(2 * nextId) :
       nextId <= MaxRecent /\ Create(1, "u1", b, 2 * nextId)
  \/ HookLoad(1)
  \/ HookFind(1)
  \/ HookSave(1)
  \/ DashboardLoad(1, "u1")
  \/ DashboardRecent(1)
  \/ \E tz \in TimeZones : DashboardToday(1, 2 * nextId, tz)
  \/ DashboardFind(1)
  \/ DashboardSave(1)
  \/ DashboardFail(1)
SpecDashboard == Init /\ [][NextDashboard]_vars

\* two users, one request at a time: creates, favorite toggles and deletes
NextToggle ==
  \/ \E u \in Users, b \in PlainCreate : CreateEntry(1, u, b, 1)
  \/ \E u \in Users, i \in EntryIds : ToggleFindNoting(1, u, i, TRUE)
  \/ ToggleSave(1)
  \/ \E u \in Users, i \in EntryIds : DeleteEntry(1, u, i)
  \/ HookLoad(1)
  \/ HookFind(1)
  \/ HookSave(1)
SpecToggle == Init /\ [][NextToggle]_vars

\* bodies of POST /api/entries: a well-formed one, one of blanks only, one with
\* empty content and one without content
ContentBodies ==
  PlainCreate \cup
  {Body(c, None, None, Some("happy"), Some("Personal")) : c \in {Some(<<" ">>), Some(<<>>), None}}

\* two users, one request at a time: creates with and without content, deletes
NextContent ==
  \/ \E u \in Users, b \in ContentBodies : CreateEntry(1, u, b, 1)
  \/ \E u \in Users, i \in EntryIds : DeleteEntry(1, u, i)
  \/ HookLoad(1)
  \/ HookFind(1)
  \/ HookSave(1)
SpecContent == Init /\ [][NextContent]_vars

\* the credentials of the requests: the five that carry no verified token, and a
\* verified token of an active account, of a deactivated one and of no account
Credentials ==
  {Credential(k, "u1") : k \in {"none", "malformed", "empty", "invalid", "expired"}}
  \cup {Credential("valid", u) : u \in {"u1", "u2", "u3"}}

\* a body of PUT /api/entries/:id with a wordCount
AuthUpdate == {Body(None, Some(MaxWordCount), None, None, None)}

MaxAuthEntries == 1            \* entries ever created in a run of requests with credentials

\* a request of worker p that presents the credential c: the rejection of the
\* middleware, or the first step of the handler for the user c resolves to
RequestWith(p, c) ==
  \/ \E op \in AuthOps : Unauthorized(p, op, c)
  \/ Auth(c) # None /\ ListFind(p, Auth(c)[1], AllEntries)
  \/ Auth(c) # None /\ Search(p, Auth(c)[1], SearchQuery(Some(Str(<<"a">>)), None, None))
  \/ \E i \in EntryIds : Auth(c) # None /\ GetEntry(p, Auth(c)[1], i)
  \/ \E b \in PlainCreate : Auth(c) # None /\ nextId <= MaxAuthEntries /\ Create(p, Auth(c)[1], b, 1)
  \/ \E i \in EntryIds, b \in AuthUpdate : Auth(c) # None /\ UpdateEntry(p, Auth(c)[1], i, b)
  \/ \E i \in EntryIds : Auth(c) # None /\ ToggleFind(p, Auth(c)[1], i)
  \/ \E i \in EntryIds : Auth(c) # None /\ DeleteEntry(p, Auth(c)[1], i)
  \/ Auth(c) # None /\ Calendar(p, Auth(c)[1], Str(Digits(2024)), Str(Digits(1)), 0)
  \/ Auth(c) # None /\ SummaryAuth(p, Auth(c)[1])
  \/ Auth(c) # None /\ ExportFind(p, Auth(c)[1])
  \/ Auth(c) # None /\ Profile(p, Auth(c)[1])
  \/ Auth(c) # None /\ DashboardLoad(p, Auth(c)[1])

\* the later steps of a request of worker p
Continued(p) ==
  \/ ListCount(p)
  \/ ToggleSave(p)
  \/ HookLoad(p)
  \/ HookFind(p)
  \/ HookSave(p)
  \/ SummaryCount(p)
  \/ SummaryWords(p)
  \/ SummaryMoods(p)
  \/ SummaryCategories(p)
  \/ SummaryMonthly(p, 1)
  \/ SummaryStreak(p)
  \/ DashboardRecent(p)
  \/ DashboardToday(p, 1, 0)
  \/ DashboardFind(p)
  \/ DashboardSave(p)
  \/ ExportUser(p)

\* the account of u2 has been deactivated; no account has the id u3
InitAuth ==
  /\ users = <<Account("u1", <<"a">>), [Account("u2", <<"b">>) EXCEPT !.isActive = FALSE]>>
  /\ entries = <<>>
  /\ stats = [u \in Users |-> ZeroStats]
  /\ procs = [p \in Procs |-> IdleProc]
  /\ nextId = 1
  /\ resp = NoResp

\* one request at a time, each with one of the credentials
NextAuth ==
  \/ \E c \in Credentials : RequestWith(1, c)
  \/ Continued(1)
SpecAuth == InitAuth /\ [][NextAuth]_vars

\* one user: creates and deletes, two requests at a time, and summaries through
\* the first worker, a store that may fail
NextSummary ==
  \/ \E p \in Procs, b \in PlainCreate : CreateEntry(p, "u1", b, 1)
  \/ \E p \in Procs, i \in EntryIds : DeleteEntry(p, "u1", i)
  \/ \E p \in Procs : HookLoad(p)
  \/ \E p \in Procs : HookFind(p)
  \/ \E p \in Procs : HookSave(p)
  \/ \E p \in Procs : HookFail(p)
  \/ SummaryAuth(1, "u1")
  \/ SummaryCount(1)
  \/ SummaryWords(1)
  \/ SummaryMoods(1)
  \/ SummaryCategories(1)
  \/ SummaryMonthly(1, 1)
  \/ SummaryStreak(1)
SpecSummary == Init /\ [][NextSummary]_vars

\* the addresses registrations are asked for: one held and two free, one of them in
\* both cases
Emails == {<<"a">>, <<"A">>, <<"c">>, <<"C">>, <<"d">>}

\* registrations of two workers, in flight at once
NextRegister ==
  \/ \E p \in Procs, e \in Emails : RegisterFind(p, e)
  \/ \E p \in Procs : RegisterSave(p)
SpecRegister == Init /\ [][NextRegister]_vars

\* one user, two requests at a time: creates and favorite toggles
NextToggleRace ==
  \/ \E p \in Procs, b \in PlainCreate : CreateEntry(p, "u1", b, 1)
  \/ \E p \in Procs, i \in EntryIds : ToggleFindNoting(p, "u1", i, TRUE)
  \/ \E p \in Procs : ToggleSave(p)
  \/ \E p \in Procs : HookLoad(p)
  \/ \E p \in Procs : HookFind(p)
  \/ \E p \in Procs : HookSave(p)
SpecToggleRace == Init /\ [][NextToggleRace]_vars

\* bodies with and without the key userId
OwnerCreate == PlainCreate \cup {WithUserId(b, "u2") : b \in PlainCreate}
OwnerUpdate == PlainUpdate \cup {WithUserId(b, "u2") : b \in PlainUpdate}

\* two users, one request at a time: reads by id and mutations with bodies that
\* name an owner
NextOwner ==
  \/ Mutations({1}, Users, EntryIds, OwnerCreate, OwnerUpdate, {1})
  \/ \E u \in Users, i \in EntryIds : GetEntry(1, u, i)
SpecOwner == Init /\ [][NextOwner]_vars

MaxListed == 3                 \* entries ever created in a run of paged list queries

\* list queries for every page up to one past the last and every limit >= 1
EveryPage ==
  {[AllEntries EXCEPT !.page = Some(Str(Digits(n))), !.limit = Some(Str(Digits(m))),
                      !.intent.page = n, !.intent.limit = m] :
     n \in 1..(MaxListed + 1), m \in 1..MaxLimit}

\* one user, one request at a time: creates at any of the dates and list queries
NextPages ==
  \/ \E b \in PlainCreate, now \in 1..MaxListed :
       nextId <= MaxListed /\ Create(1, "u1", b, now)
  \/ HookLoad(1)
  \/ HookFind(1)
  \/ HookSave(1)
  \/ \E o \in EveryPage : ListFind(1, "u1", o)
  \/ ListCount(1)
SpecPages == Init /\ [][NextPages]_vars

\* ------------------------------------------------------------------ claims
MutationOps == {"create", "update", "toggle", "delete"}
ByIdOps == {"get", "update", "toggle", "delete"}
Succeeded == resp.status \in {200, 201}

\* the number of whitespace-delimited non-empty tokens of a content: the places
\* where a token starts
TokenCount(content) ==
  Cardinality({i \in 1..Len(content) :
                 /\ content[i] \notin Whitespace
                 /\ (i = 1 \/ content[i - 1] \in Whitespace)})

\* the least n with n * 200 >= wordCount
CeilOver200(wordCount) == CHOOSE n \in 0..wordCount : n * 200 >= wordCount /\ (n = 0 \/ (n - 1) * 200 < wordCount)

\* the derived fields of e are those of its content
Derived(e) ==
  /\ e.wordCount = TokenCount(e.content)
  /\ e.readingTime = CeilOver200(e.wordCount)

\* the step is taken by a request of user u
StepBy(u) ==
  \/ \E p \in Procs : /\ procs[p].pc # procs'[p].pc
                      /\ u \in {procs[p].user, procs'[p].user}
  \/ /\ \A p \in Procs : procs[p].pc = procs'[p].pc
     /\ resp'.user = u

\* entry e of this state is gone or changed in the next
Touched(e) == \A j \in 1..Len(entries') : entries'[j] # e

\* C1: a get, update, toggle or delete by id answers with an entry only to its
\* owner, and an entry is changed or removed only by a step of a request of its owner
C1_OwnerOnly ==
  [][/\ (resp'.op \in ByIdOps /\ resp'.status = 200) => resp'.owner = Some(resp'.user)
     /\ \A k \in 1..Len(entries) : Touched(entries[k]) => StepBy(entries[k].userId)]_vars

\* C1 witness: a user is refused an entry that is stored under another user
C1_Witness ==
  /\ resp.op = "delete" /\ resp.status = 404
  /\ \E k \in 1..Len(entries) : entries[k].userId = "u1"
  /\ \E k \in 1..Len(entries) : entries[k].userId = "u2"

\* C3: after a create, or an update that sets the content, the stored wordCount is
\* the number of tokens of the stored content and readingTime is ceil(wordCount / 200)
C3_DerivedAfterContentSet ==
  [][\A u \in Users, p \in Procs :
       /\ \A b \in CreateBodies, now \in Dates :
            (ValidCreate(b) /\ CreateEntry(p, u, b, now))
              => Derived(entries'[Len(entries')])
       /\ \A b \in UpdateBodies, i \in EntryIds :
            (ValidUpdate(b) /\ b.content # None /\ UpdateEntry(p, u, i, b))
              => \A k \in Matching(i, u) : Derived(entries'[k])]_vars

\* C4: a create or an update whose body supplies a wordCount stores the wordCount
\* and readingTime recomputed from the entry's content, not the supplied value
C4_SuppliedWordCountIgnored ==
  [][\A u \in Users, p \in Procs :
       /\ \A b \in CreateBodies, now \in Dates :
            (ValidCreate(b) /\ b.wordCount # None /\ CreateEntry(p, u, b, now))
              => Derived(entries'[Len(entries')])
       /\ \A b \in UpdateBodies, i \in EntryIds :
            (ValidUpdate(b) /\ b.wordCount # None /\ UpdateEntry(p, u, i, b))
              => \A k \in Matching(i, u) : Derived(entries'[k])]_vars

\* C5: every successful create, update, toggle and delete has run a recomputation of
\* the owner's stats by the time it answers
C5_MutationRecomputes ==
  (resp.op \in MutationOps /\ Succeeded) => resp.recompute \in {"saved", "failed"}

RECURSIVE MaxDate(_)
\* the greatest date of the entries s (s not empty)
MaxDate(s) ==
  IF Len(s) = 1 THEN s[1].date
  ELSE IF Head(s).date >= MaxDate(Tail(s)) THEN Head(s).date ELSE MaxDate(Tail(s))

\* the stats of a full scan of the entries s
ScanStats(s) ==
  [totalEntries |-> Len(s), totalWords |-> SumWordCount(s),
   lastEntryDate |-> IF s = <<>> THEN None ELSE Some(MaxDate(s))]

\* C6: a recomputation that was saved leaves the user's stats at the count, the word
\* sum and the most recent date of the user's entries (one request at a time)
C6_RecomputedStats ==
  resp.recompute = "saved" => stats[resp.owner[1]] = ScanStats(EntriesOf(resp.owner[1]))

\* C7: a mutation that ran to its answer with no other request in flight leaves
\* totalEntries and totalWords at the values of a full scan
C7_SoloMutationHeals ==
  (resp.op \in MutationOps /\ Succeeded /\ resp.solo)
    => /\ stats[resp.user].totalEntries = Len(EntriesOf(resp.user))
       /\ stats[resp.user].totalWords = SumWordCount(EntriesOf(resp.user))

\* C8: when the recomputation fails, the step that gives up on it leaves the entries
\* as they are and answers the mutation with its success status
C8_FailureNotSurfaced ==
  [][resp'.recompute = "failed"
       => /\ entries' = entries
          /\ resp'.op \in MutationOps
          /\ resp'.status = SuccessStatus(resp'.op)]_vars

\* C8 witness: a create whose recomputation failed has answered and its entry is stored
C8_Witness ==
  /\ resp.recompute = "failed" /\ resp.op = "create" /\ resp.status = 201
  /\ Len(EntriesOf(resp.user)) > stats[resp.user].totalEntries

\* the entries of user u in the store, by their owner field
Mine(u) == SelectSeq(entries, LAMBDA e : e.userId = u)
AllMine(s, u) == \A i \in 1..Len(s) : s[i].userId = u

RECURSIVE SumCount(_)
SumCount(groups) == IF groups = <<>> THEN 0 ELSE Head(groups).count + SumCount(Tail(groups))

InMonth(e, q) ==
  /\ e.date >= MonthStart(MonthIndex(NumeralValue(q.year.s), NumeralValue(q.month.s)), q.tz)
  /\ e.date <= MonthEnd(MonthIndex(NumeralValue(q.year.s), NumeralValue(q.month.s)), q.tz)

ListOwn ==
  /\ AllMine(resp.body[1].entries, resp.user)
  /\ resp.body[1].pagination.totalEntries =
       Len(SelectSeq(Mine(resp.user), LAMBDA e : ListFilter(e, e.userId, resp.req[1])))
SearchOwn ==
  /\ AllMine(resp.body[1].entries, resp.user)
  /\ resp.body[1].total = Len(resp.body[1].entries)
CalendarOwn ==
  /\ \A key \in DOMAIN resp.body[1].entries : AllMine(resp.body[1].entries[key], resp.user)
  /\ resp.body[1].totalEntries =
       Len(SelectSeq(Mine(resp.user), LAMBDA e : InMonth(e, resp.req[1])))
SummaryOwn ==
  /\ resp.body[1].totalEntries = Len(Mine(resp.user))
  /\ resp.body[1].totalWords = SumWordCount(Mine(resp.user))
  /\ SumCount(resp.body[1].moodDistribution) = Len(Mine(resp.user))
  /\ SumCount(resp.body[1].categoryDistribution) = Len(Mine(resp.user))
  /\ SumCount(resp.body[1].monthlyActivity) = Len(Mine(resp.user))
  /\ SumCount(resp.body[1].streakData) = Len(Mine(resp.user))
DashboardOwn ==
  /\ AllMine(resp.body[1].recentEntries, resp.user)
  /\ AllMine(resp.body[1].todayEntry, resp.user)
  /\ resp.body[1].stats.totalEntries = Len(Mine(resp.user))
  /\ resp.body[1].stats.totalWords = SumWordCount(Mine(resp.user))
ExportOwn ==
  /\ AllMine(resp.body[1].entries, resp.user)
  /\ resp.body[1].totalEntries = Len(Mine(resp.user))

\* C2: every read view answered for user u (list with any of the filter, sort and
\* pagination parameters, search, calendar, summary, dashboard, export) contains only
\* entries whose owner is u and its counts and sums are those of u's entries alone,
\* whatever other users hold
C2_ReadsOwnOnly ==
  (resp.status = 200 /\ resp.body # None) =>
     /\ resp.op = "list" => ListOwn
     /\ resp.op = "search" => SearchOwn
     /\ resp.op = "calendar" => CalendarOwn
     /\ resp.op = "summary" => SummaryOwn
     /\ resp.op = "dashboard" => DashboardOwn
     /\ resp.op = "export" => ExportOwn

C2_Witness ==
  /\ resp.op = "list" /\ resp.user = "u1" /\ resp.status = 200
  /\ resp.req = Some(AllEntries)
  /\ Len(resp.body[1].entries) = 1
  /\ Len(Mine("u2")) = 1

\* a summary that overlapped no request and arrived right after the 200 response of
\* a delete of the same user that left the user no entry
AfterOnlyDelete ==
  /\ resp.op = "summary" /\ resp.status = 200 /\ resp.solo
  /\ resp.req[1].op = "delete"
  /\ resp.req[1].left = 0
ShowsNothing ==
  /\ resp.body[1].totalEntries = 0
  /\ resp.body[1].totalWords = 0
  /\ resp.body[1].userStats = ZeroStats

CeilOf(total, limit) == CHOOSE n \in 0..total : n * limit >= total /\ (n = 0 \/ (n - 1) * limit < total)

\* C10: a list query for page >= 1 with limit >= 1 (1 and 10 when absent) over
\* `total` matching entries answers hasNext = (page * limit < total),
\* hasPrev = (page > 1), totalPages = ceil(total / limit), totalEntries = total and
\* currentPage = page
C10_Pagination ==
  (resp.op = "list" /\ resp.status = 200) =>
     LET o == resp.req[1]
         page == IF o.page = None THEN 1 ELSE o.intent.page
         limit == IF o.limit = None THEN 10 ELSE o.intent.limit
         total == Len(SelectSeq(Mine(resp.user), LAMBDA e : ListFilter(e, resp.user, o)))
         pagination == resp.body[1].pagination
     IN /\ pagination.hasNext = (page * limit < total)
        /\ pagination.hasPrev = (page > 1)
        /\ pagination.totalPages = CeilOf(total, limit)
        /\ pagination.totalEntries = total
        /\ pagination.currentPage = Some(page)

C10_Witness ==
  /\ resp.op = "list" /\ resp.status = 200
  /\ resp.req[1].page = Some(Str(<<"1">>)) /\ resp.req[1].limit = Some(Str(<<"1">>))
  /\ resp.body[1].pagination.hasNext
  /\ resp.body[1].pagination.totalPages = 2

\* the entries of the user that a list query with the dates meant has to match:
\* those satisfying the other filters with start <= date <= end, a bound that is
\* not given not restricting
InRangeMeant ==
  {e \in Stored :
     /\ e.userId = resp.user
     /\ ListFilter(e, e.userId, [resp.req[1] EXCEPT !.startDate = None, !.endDate = None])
     /\ resp.req[1].intent.startDate # None => e.date >= resp.req[1].intent.startDate[1]
     /\ resp.req[1].intent.endDate # None => e.date <= resp.req[1].intent.endDate[1]}

\* C11: a list query matches exactly the user's entries (satisfying the other
\* filters) with startDate <= date <= endDate, both bounds included; with one bound
\* only that bound restricts, with none the date does not restrict
C11_DateRange ==
  (resp.op = "list" /\ resp.status = 200) =>
     /\ {resp.body[1].entries[i] : i \in 1..Len(resp.body[1].entries)} = InRangeMeant
     /\ resp.body[1].pagination.totalEntries = Cardinality(InRangeMeant)

C11_Witness ==
  /\ resp.op = "list" /\ resp.status = 200
  /\ resp.req[1].intent.startDate = Some(2) /\ resp.req[1].intent.endDate = Some(4)
  /\ resp.req[1].startDate[1].t = "string"
  /\ {resp.body[1].entries[i].date : i \in 1..Len(resp.body[1].entries)} = {2, 4}

\* C12: a list query whose mood is not one of the 8 moods, or whose category is not
\* one of the 8 categories, is answered with a validation error (400), not with a
\* result set
C12_InvalidFilterRejected ==
  (/\ resp.op = "list"
   /\ \/ Truthy(resp.req[1].mood) /\ resp.req[1].mood[1].name \notin Moods
      \/ Truthy(resp.req[1].category) /\ resp.req[1].category[1].name \notin Categories)
    => resp.status = 400

\* C13: a list query given the favorite flag, as a boolean or in the query string,
\* returns exactly the user's entries whose isFavorite equals the flag
C13_FavoriteFilter ==
  (resp.op = "list" /\ resp.status = 200 /\ resp.req[1].intent.favorite # None) =>
     {resp.body[1].entries[i] : i \in 1..Len(resp.body[1].entries)} =
       {e \in Stored : e.userId = resp.user /\ e.isFavorite = resp.req[1].intent.favorite[1]}

\* C14: the entries of a list query come ordered by text relevance when a search is
\* active, and by the requested sort field and direction (date, descending, when
\* none is requested) when not
C14_ListOrder ==
  (resp.op = "list" /\ resp.status = 200) =>
     \A i, j \in 1..Len(resp.body[1].entries) :
        i < j =>
          LET a == resp.body[1].entries[i]
              b == resp.body[1].entries[j]
              o == resp.req[1]
              field == IF o.sortBy = None THEN "date" ELSE o.sortBy[1]
              descending == o.sortOrder = None \/ o.sortOrder[1] = "desc"
          IN IF TruthyText(o.search)
             THEN TermScore(a, o.search[1].s) >= TermScore(b, o.search[1].s)
             ELSE IF descending THEN a[field] >= b[field] ELSE a[field] <= b[field]

\* the first day of each month of 2024 in days since 2024-01-01, and 2025-01-01
FirstDays2024 == <<0, 31, 60, 91, 121, 152, 182, 213, 244, 274, 305, 335, 366>>
IsNumeral(s) == s # <<>> /\ \A i \in 1..Len(s) : IsDigit(s[i])
\* a calendar request for a month of 2024
WellFormed(q) ==
  /\ q.year.s = Digits(2024)
  /\ IsNumeral(q.month.s) /\ NumeralValue(q.month.s) \in 1..12
\* 00:00:00.000 of the first day and 23:59:59.999 of the last day of the month of
\* q, in the server's time zone
FirstTickOf(q) == 2 * FirstDays2024[NumeralValue(q.month.s)] - q.tz
LastTickOf(q) == 2 * FirstDays2024[NumeralValue(q.month.s) + 1] - q.tz - 1
InCalendarRange(e) ==
  /\ e.userId = resp.user
  /\ e.date >= FirstTickOf(resp.req[1]) /\ e.date <= LastTickOf(resp.req[1])
\* the places (group key, position) of the entries of a calendar response
Grouped ==
  {pl \in (DOMAIN resp.body[1].entries) \X (1..Len(entries)) :
     pl[2] <= Len(resp.body[1].entries[pl[1]])}

\* C15: in the response to a calendar request for a month, every grouped entry is
\* the requester's and dated within the month, every entry of the requester dated
\* within the month is in exactly one group, no group is empty, and totalEntries
\* is the sum of the group sizes
C15_CalendarMonth ==
  (resp.op = "calendar" /\ resp.status = 200 /\ WellFormed(resp.req[1])) =>
     /\ \A pl \in Grouped : InCalendarRange(resp.body[1].entries[pl[1]][pl[2]])
     /\ \A j \in 1..Len(entries) :
          InCalendarRange(entries[j]) =>
            Cardinality({pl \in Grouped :
                           resp.body[1].entries[pl[1]][pl[2]].id = entries[j].id}) = 1
     /\ \A key \in DOMAIN resp.body[1].entries : resp.body[1].entries[key] # <<>>
     /\ resp.body[1].totalEntries = Cardinality(Grouped)

C15_Witness ==
  /\ resp.op = "calendar" /\ resp.status = 200 /\ WellFormed(resp.req[1])
  /\ resp.body[1].totalEntries = 1
  /\ \E pl \in Grouped : resp.body[1].entries[pl[1]][pl[2]].date = LastTickOf(resp.req[1])
  /\ \E j \in 1..Len(entries) :
       /\ entries[j].userId # resp.user
       /\ entries[j].date >= FirstTickOf(resp.req[1])
       /\ entries[j].date <= LastTickOf(resp.req[1])

\* the calendar date of date d in the time zone tz, in days since 2024-01-01
LocalDayOf(d, tz) == (d + tz) \div 2
MonthOfDay2024(day) == CHOOSE m \in 1..12 : FirstDays2024[m] <= day /\ day < FirstDays2024[m + 1]
\* YYYY-MM-DD of day, a day of 2024
KeyOfDay2024(day) ==
  Digits(2024) \o <<"-">> \o Pad2(MonthOfDay2024(day)) \o <<"-">>
    \o Pad2(day - FirstDays2024[MonthOfDay2024(day)] + 1)
KeysOfMonth(q) ==
  {KeyOfDay2024(day) : day \in FirstDays2024[NumeralValue(q.month.s)] ..
                              FirstDays2024[NumeralValue(q.month.s) + 1] - 1}

\* C16: in the response to a calendar request for a month, every key is a date of
\* that month, and every entry stands under the key of its own calendar date in
\* the time zone of the month range, so that entries of one calendar date share
\* one group
C16_CalendarKeys ==
  (resp.op = "calendar" /\ resp.status = 200 /\ WellFormed(resp.req[1])) =>
     /\ DOMAIN resp.body[1].entries \subseteq KeysOfMonth(resp.req[1])
     /\ \A pl \in Grouped :
          pl[1] = KeyOfDay2024(LocalDayOf(resp.body[1].entries[pl[1]][pl[2]].date,
                                          resp.req[1].tz))

\* a calendar request whose year or month is no numeral, or whose month is not 1..12
Malformed(q) ==
  \/ ~IsNumeral(q.year.s)
  \/ ~IsNumeral(q.month.s)
  \/ NumeralValue(q.month.s) \notin 1..12

\* C17: a calendar request whose year or month is malformed fails (with a
\* validation error): it is not answered with success and carries no entries,
\* those of another month least of all
C17_MalformedCalendarRejected ==
  (resp.op = "calendar" /\ Malformed(resp.req[1])) =>
     /\ resp.status >= 400
     /\ resp.body = None

RECURSIVE WordsOfUser(_, _)
\* the sum of wordCount over the first n stored entries that are u's
WordsOfUser(u, n) ==
  IF n = 0 THEN 0
  ELSE WordsOfUser(u, n - 1) + (IF entries[n].userId = u THEN entries[n].wordCount ELSE 0)

\* C18: the summary reports the number of the user's entries, the sum of their
\* wordCount, and as averageWordsPerEntry the integer nearest to totalWords /
\* totalEntries (a half rounds up), 0 when the user has no entry
C18_SummaryTotals ==
  (resp.op = "summary" /\ resp.status = 200) =>
     LET n == Cardinality({j \in 1..Len(entries) : entries[j].userId = resp.user})
         w == WordsOfUser(resp.user, Len(entries))
         avg == resp.body[1].averageWordsPerEntry
     IN /\ resp.body[1].totalEntries = n
        /\ resp.body[1].totalWords = w
        /\ n = 0 => avg = 0
        /\ n > 0 => 2 * avg * n <= 2 * w + n /\ 2 * w + n < 2 * (avg + 1) * n

C18_Witness ==
  /\ resp.op = "summary" /\ resp.status = 200
  /\ resp.body[1].totalEntries = 2
  /\ resp.body[1].totalWords = 3
  /\ resp.body[1].averageWordsPerEntry = 2

\* the entries of the answered user in the store
MineSet == {e \in Stored : e.userId = resp.user}
Least(a, b) == IF a < b THEN a ELSE b
\* the recent entries of a dashboard response: the five (all, when fewer) entries
\* of the user with the greatest dates, latest first
RecentAsClaimed ==
  LET recent == resp.body[1].recentEntries
  IN /\ Len(recent) = Least(5, Cardinality(MineSet))
     /\ \A i \in 1..Len(recent) : recent[i] \in MineSet
     /\ \A i, j \in 1..Len(recent) :
          i < j => recent[i].id # recent[j].id /\ recent[i].date >= recent[j].date
     /\ \A e \in MineSet :
          (\A i \in 1..Len(recent) : recent[i].id # e.id) =>
             \A i \in 1..Len(recent) : recent[i].date >= e.date
\* hasWrittenToday: an entry of the user on the server's local date of the request
TodayAsClaimed ==
  resp.body[1].hasWrittenToday <=>
    \E e \in MineSet :
       LocalDayOf(e.date, resp.req[1].tz) = LocalDayOf(resp.req[1].now, resp.req[1].tz)
\* the stats answered are the stored ones, with the count and the word sum of a scan
CountsAsClaimed ==
  /\ resp.body[1].stats = stats[resp.user]
  /\ resp.body[1].stats.totalEntries = Cardinality(MineSet)
  /\ resp.body[1].stats.totalWords = WordsOfUser(resp.user, Len(entries))

\* C19: a dashboard response carries the (at most five) entries of the user with
\* the greatest dates, latest first; hasWrittenToday exactly when the user has an
\* entry on the server's local date; and stats that the request recomputed and
\* stored, equal to a full scan of the user's entries (count, word sum and the
\* most recent date)
C19_Dashboard ==
  (resp.op = "dashboard" /\ resp.status = 200) =>
     /\ RecentAsClaimed
     /\ TodayAsClaimed
     /\ CountsAsClaimed
     /\ resp.body[1].stats = ScanStats(Mine(resp.user))

\* C20: a favorite toggle leaves the entry with the negation of the isFavorite it
\* had, and the second of two successive toggles of an entry leaves it with the
\* isFavorite it had before the first
C20_ToggleTwice ==
  (resp.op = "toggle" /\ resp.status = 200) =>
     /\ \E k \in 1..Len(entries) : entries[k].id = resp.req[1].id
     /\ \A k \in 1..Len(entries) :
          entries[k].id = resp.req[1].id =>
            /\ entries[k].isFavorite = ~resp.req[1].before
            /\ resp.req[1].prior # None => entries[k].isFavorite = resp.req[1].prior[1]

C20_Witness ==
  /\ resp.op = "toggle" /\ resp.status = 200
  /\ resp.req[1].prior = Some(TRUE)
  /\ \E k \in 1..Len(entries) : entries[k].id = resp.req[1].id /\ entries[k].isFavorite

\* C21: a create whose content is empty or missing is answered 400 and its step
\* leaves the entries, the id counter and every user's stats as they were; no step
\* adds an entry with empty content
C21_EmptyContentRejected ==
  [][/\ (resp'.op = "create" /\ resp'.status = 400) =>
          /\ entries' = entries
          /\ stats' = stats
          /\ nextId' = nextId
     /\ (resp'.op = "create" /\ resp'.req # None /\ resp'.req[1].content \in {None, Some(<<>>)})
          => resp'.status = 400
     /\ Len(entries') > Len(entries) => entries'[Len(entries')].content # <<>>]_vars

C21_Witness ==
  /\ resp.op = "create" /\ resp.status = 400
  /\ resp.req[1].content = Some(<<>>)
  /\ entries # <<>>
  /\ stats["u1"].totalEntries = 1

\* user u owns no entry with id i: the id matches no entry, or another user's
NotOwned(i, u) == \A k \in 1..Len(entries) : ~(entries[k].id = i /\ entries[k].userId = u)
\* the not-found answer of operation op, and nothing stored changed
NotFoundStep(op) ==
  /\ [resp' EXCEPT !.solo = TRUE] = [NoResp EXCEPT !.op = op, !.status = 404]
  /\ entries' = entries
  /\ stats' = stats
  /\ nextId' = nextId

\* C22: a get, update, toggle or delete that the worker serves for a user who owns
\* no entry with the id is answered with one and the same not-found response and
\* changes nothing stored, whether or not another user's entry with that id exists
C22_NotFoundForNonOwner ==
  [][\A u \in Users, i \in EntryIds :
        NotOwned(i, u) =>
          /\ GetEntry(1, u, i) => NotFoundStep("get")
          /\ (\E b \in PlainUpdate : UpdateEntry(1, u, i, b)) => NotFoundStep("update")
          /\ ToggleFind(1, u, i) => NotFoundStep("toggle")
          /\ DeleteEntry(1, u, i) => NotFoundStep("delete")]_vars

\* a by-id request was answered not-found while every id is the id of a stored entry
C22_Witness ==
  /\ resp.op \in ByIdOps /\ resp.status = 404
  /\ \A i \in EntryIds : \E k \in 1..Len(entries) : entries[k].id = i

\* a credential that is missing, malformed, invalid or expired, or a token of an
\* account that does not exist or is not active
NoActiveUser(c) ==
  \/ c.kind \in {"none", "malformed", "empty", "invalid", "expired"}
  \/ \A k \in 1..Len(users) : users[k].id = c.user => ~users[k].isActive

\* C23: a request to one of the twelve routes that presents a credential without an
\* existing, active user behind it is answered 401 by that step, which starts no
\* handler and changes no entry, no stats and no user (every step either is such
\* an answer or is no request with such a credential)
C23_NoHandlerWithoutUser ==
  [][\/ /\ resp'.status = 401 /\ resp'.op \in AuthOps
        /\ UNCHANGED <<entries, stats, nextId, users, procs>>
     \/ \A c \in Credentials : ~(NoActiveUser(c) /\ RequestWith(1, c))]_vars

\* a verified token of the deactivated account was rejected while entries are stored
C23_Witness ==
  /\ resp.status = 401 /\ resp.op = "delete"
  /\ resp.req[1] = Credential("valid", "u2")
  /\ entries # <<>>

\* the email e is held by a user, compared without regard to case
Held(e) == \E k \in 1..Len(users) : Lower(users[k].email) = Lower(e)

\* C24: a registration with an email that a user holds (compared without regard to
\* case) when it is answered fails with a conflict error that names the email field
\* and adds no user, also when registrations run at once; and no two users share
\* an email
C24_DuplicateEmailConflict ==
  [][/\ (resp'.op = "register" /\ Held(resp'.req[1])) =>
          /\ resp'.status \in {400, 409}
          /\ resp'.body = Some("email")
          /\ users' = users
     /\ \A j, k \in 1..Len(users') :
          Lower(users'[j].email) = Lower(users'[k].email) => j = k]_vars

\* the operation of the request that the step of the worker serves
ReadOps == {"list", "search", "get", "calendar", "summary", "export", "dashboard"}
StepOp ==
  IF procs[1].op # "none" THEN procs[1].op
  ELSE IF procs'[1].op # "none" THEN procs'[1].op
  ELSE resp'.op

\* C25: no step of a list, search, get, calendar, summary, export or dashboard
\* request changes a stored entry, and no step of a calendar or summary request
\* changes the stored stats of a user
C25_ReadsLeaveEntries ==
  [][/\ StepOp \in ReadOps => entries' = entries /\ nextId' = nextId
     /\ StepOp \in {"calendar", "summary"} => stats' = stats]_vars

\* a summary answered for a user whose entry was rewritten since its stats were stored
C25_Witness ==
  /\ resp.op = "summary" /\ resp.status = 200
  /\ Len(entries) = 1 /\ entries[1].wordCount = MaxWordCount
  /\ stats["u1"].totalWords = 1

\* C26: the save of a favorite toggle leaves every field of every entry but
\* isFavorite as it was: content, mood, category, date, owner, wordCount and
\* readingTime of the toggled entry are the same after the toggle as before it
C26_ToggleChangesOnlyFavorite ==
  [][\A p \in Procs :
       (procs[p].pc = "toggle_save" /\ procs'[p].pc = "hook_load") =>
          /\ Len(entries') = Len(entries)
          /\ \A k \in 1..Len(entries) :
               [entries'[k] EXCEPT !.isFavorite = entries[k].isFavorite] = entries[k]]_vars

\* a favorite toggle of an entry answered with success
ToggleDone(r) == r.op = "toggle" /\ r.status = 200 /\ r.req # None

\* C27: when two favorite toggles of one entry that both found the same isFavorite
\* (each read it before the other wrote) are answered one right after the other,
\* the entry is left with the isFavorite they found: no toggle is lost
C27_ConcurrentToggles ==
  [][(/\ ToggleDone(resp) /\ ToggleDone(resp') /\ ~resp'.solo
      /\ procs'[1].pc = "idle" /\ procs'[2].pc = "idle"
      /\ resp.req[1].id = resp'.req[1].id
      /\ resp.req[1].before = resp'.req[1].before)
       => \A k \in 1..Len(entries') :
            entries'[k].id = resp'.req[1].id
              => entries'[k].isFavorite = resp'.req[1].before]_vars

\* C28: an entry is stored under the id of the user whose request created it, and
\* no step changes the userId of a stored entry
C28_OwnerFixed ==
  [][\A k \in 1..Len(entries') :
       IF \E j \in 1..Len(entries) : entries[j].id = entries'[k].id
       THEN \A j \in 1..Len(entries) :
              entries[j].id = entries'[k].id => entries'[k].userId = entries[j].userId
       ELSE \E p \in Procs :
              /\ procs[p].pc = "idle" /\ procs'[p].op = "create"
              /\ procs'[p].user = entries'[k].userId]_vars

\* an update that names another owner was refused while both users hold an entry
C28_Witness ==
  /\ resp.op = "update" /\ resp.status = 400
  /\ Len(entries) = 2 /\ entries[1].userId = "u1" /\ entries[2].userId = "u2"

\* the entries a list query without filters of the user just answered matches
ListMatching == {e \in Stored : e.userId = resp.user}

\* the position of e among the matching entries, the latest date first
RankOf(e) == 1 + Cardinality({f \in ListMatching : f.date > e.date})

\* C29: with a sort order that is total on the matching entries and a limit >= 1,
\* page p of a list query holds at most limit entries, namely those at the sorted
\* positions (p-1)*limit+1 .. p*limit in that order, every matching entry at one of
\* these positions is on the page, and a page beyond totalPages is empty: so the
\* pages 1..totalPages partition the matching entries
C29_PagesPartition ==
  (/\ resp.op = "list" /\ resp.status = 200
   /\ \A e, f \in ListMatching : e # f => e.date # f.date) =>
     LET page == resp.req[1].intent.page
         limit == resp.req[1].intent.limit
         got == resp.body[1].entries
     IN /\ Len(got) <= limit
        /\ \A i \in 1..Len(got) :
             got[i] \in ListMatching /\ RankOf(got[i]) = (page - 1) * limit + i
        /\ \A e \in ListMatching :
             ((page - 1) * limit < RankOf(e) /\ RankOf(e) <= page * limit)
               => \E i \in 1..Len(got) : got[i] = e
        /\ page > resp.body[1].pagination.totalPages => got = <<>>

\* the second and last page of three entries with distinct dates, two to a page
C29_Witness ==
  /\ resp.op = "list" /\ resp.status = 200
  /\ resp.req[1].intent.page = 2 /\ resp.req[1].intent.limit = 2
  /\ Cardinality({e.date : e \in ListMatching}) = 3
  /\ Len(resp.body[1].entries) = 1
  /\ resp.body[1].pagination.totalPages = 2

\* the entries the user can hold at some moment of a run of creates and deletes
EverStored == {PreSave(NewEntry(i, resp.user, b, 1)) : i \in EntryIds, b \in PlainCreate}

\* C30: the figures of a summary response are those of one set of the user's
\* entries, whatever creates and deletes of the user ran meanwhile: totalEntries is
\* its size, totalWords its word sum, averageWordsPerEntry their rounded quotient,
\* and the counts of the mood and of the category distribution each sum to
\* totalEntries
C30_SummarySnapshot ==
  (resp.op = "summary" /\ resp.status = 200) =>
     \E S \in SUBSET EverStored :
        /\ resp.body[1].totalEntries = Cardinality(S)
        /\ resp.body[1].totalWords = SumWordCount(CHOOSE s \in Orders(S) : TRUE)
        /\ resp.body[1].averageWordsPerEntry =
             (IF S = {} THEN 0
              ELSE Round(SumWordCount(CHOOSE s \in Orders(S) : TRUE), Cardinality(S)))
        /\ SumCount(resp.body[1].moodDistribution) = Cardinality(S)
        /\ SumCount(resp.body[1].categoryDistribution) = Cardinality(S)

====
